---- MODULE Spec2Model ----
(***************************************************************************)
(* Model of the sb-mfm-decode signal pipeline:                             *)
(*   filter.DCOffset  (src/filter/dc-offset.go, second file, Run/2)        *)
(*   mfm.EdgeDetect   (src/mfm/edge-detect.go)                             *)
(*   mfm.PulseClassifier (src/mfm/pulse-classifier.go)                     *)
(*                                                                         *)
(* Go slices are 0-based; a slice is a TLA+ sequence and element i of the  *)
(* slice is s[i + 1].                                                      *)
(*                                                                         *)
(* float64 values are modelled as rationals <<n, d>> in lowest terms with  *)
(* d > 0, extended by the IEEE specials that a division by zero produces:  *)
(* +Inf = <<1, 0>>, -Inf = <<-1, 0>>, NaN = <<0, 0>>.  Every arithmetic    *)
(* operation rounds its exact result to the nearest value with FloatBits   *)
(* significant bits, ties to even, as IEEE 754 does with 53 bits.          *)
(***************************************************************************)
EXTENDS Integers, Sequences, FiniteSets, TLC

\* ------------------------------------------------------------------------
\* Bounds of the model.
\* ------------------------------------------------------------------------
\* Longest exhaustively enumerated sample buffer.
MaxLen == 4
\* Largest absolute sample value of the enumerated buffers.
MaxAmp == 2
\* Largest NoiseFloor drawn.
MaxNoise == 1
\* Largest initial MaxCrossingTime drawn.
MaxMCT == 2
\* Width in bits of the Go int of the model.  The real widths are 32 and
\* 64; the only values near the limits are the results of int(NaN), so a
\* scaled-down width keeps every wrap-around the code can perform.
IntBits == 16
\* Number of significant bits of the float64 of the model.  The real
\* number is 53; a scaled-down number keeps the rounding of every
\* operation whose exact result needs more bits.
FloatBits == 12
\* Wave buffers: the runs of freely chosen length, the runs of one length
\* that follow them.
MaxFree == 2
MaxTail == 10
\* Longest exhaustively enumerated buffer given to the classifier.
MaxPulseLen == 4
\* Most runs of the square waves of the bit-width history runs.
MaxRingRuns == 20
\* Most PulseClassifier.Next calls of one run.
MaxCalls == 12
\* DC-offset filter: buffers of every content up to MaxDCLen samples, runs
\* of one value of up to MaxDCRun samples, sample values up to MaxDCAmp,
\* PeakWidth up to MaxPeakWidth, the NoiseFloor 0 or DCNoise.
MaxDCLen == 4
MaxDCRun == 8
MaxDCAmp == 160
DCNoise == 15
\* The value that stands for a sample Run has overwritten, when the reads
\* of overwritten samples are looked for.
Mark == 1000
MaxPeakWidth == 2
MaxShiftLen == 6

VARIABLES
    Samples,      \* EdgeDetect.Samples; the input slice given to DCOffset.Run
    NoiseFloor,   \* EdgeDetect.NoiseFloor
    nanInt,       \* {what int(NaN) yields on this build}, {} until used
    e,            \* the EdgeDetect fields that change
    edgeRet,      \* result of the latest EdgeDetect.Next call
    c,            \* the PulseClassifier fields (c.Edges is e)
    pulseRet,     \* result of the latest PulseClassifier call
    lastCall,     \* the latest classifier call and the fields before it
    lastPeek,     \* what the lead-in peek of the latest call did
    pulseCalls,   \* the number of PulseClassifier.Next calls made
    f,            \* the DCOffset fields, with the input and output slices
    dcPc,         \* where DCOffset.Run is: start, loop, first, next, done, error
    dcErr,        \* the error Run returned, "" for nil
    dcLast,       \* the call DCOffset.Run made last, "none" before Run
    iterPos,      \* f.pos when the current pass of Run's outer loop began
    iterNoise,    \* f.noiseLevel when that pass began
    dec,          \* the Decoder fields and where NextBlock is
    lastFn        \* the arguments and the result of a function called alone

vars == <<Samples, NoiseFloor, nanInt, e, edgeRet, c, pulseRet, lastCall,
          lastPeek, pulseCalls, f, dcPc, dcErr, dcLast, iterPos,
          iterNoise, dec, lastFn>>

\* The variables of the DC-offset filter.
dcVars == <<f, dcPc, dcErr, dcLast, iterPos, iterNoise>>

\* The variables of the decoder and of the functions called alone.
restVars == <<dec, lastFn>>

\* ------------------------------------------------------------------------
\* Go int arithmetic.
\* ------------------------------------------------------------------------
MinInt == -(2 ^ (IntBits - 1))
MaxInt == (2 ^ (IntBits - 1)) - 1

\* Two's complement wrap-around of an int result.
Wrap(x) == ((x - MinInt) % (2 ^ IntBits)) + MinInt

abs(v) == IF v < 0 THEN -v ELSE v
min(a, b) == IF a < b THEN a ELSE b
max(a, b) == IF a > b THEN a ELSE b

\* Go integer division truncates toward zero.
GoDiv(a, b) == IF a >= 0 THEN a \div b ELSE -((-a) \div b)

\* The results of int(NaN) that Go builds produce: the conversion is
\* implementation-dependent (0x8000... on amd64/386/ppc64, 0 on arm64 and
\* wasm, the largest int on riscv64 and mips).
NaNInts == {MinInt, 0, MaxInt}

\* ------------------------------------------------------------------------
\* float64 arithmetic.
\* ------------------------------------------------------------------------
RECURSIVE GCD(_, _)
GCD(a, b) == IF b = 0 THEN a ELSE GCD(b, a % b)

Sign(n) == IF n > 0 THEN 1 ELSE IF n < 0 THEN -1 ELSE 0

\* The powers of two that are denominators of the float64 values reached.
PowersOfTwo == {2 ^ i : i \in 0 .. 24}

\* n / d (n >= 0, d > 0) rounded to the nearest integer, ties to even.
RoundEven(n, d) ==
    IF 2 * (n % d) > d THEN (n \div d) + 1
    ELSE IF 2 * (n % d) < d THEN n \div d
    ELSE (n \div d) + ((n \div d) % 2)

\* The value n / d * sn / sd (n > 0, d > 0), rounded to FloatBits
\* significant bits: n / d is scaled by powers of two into
\* [2^(FloatBits-1), 2^FloatBits) and rounded there.
RECURSIVE Mantissa(_, _, _, _)
Mantissa(n, d, sn, sd) ==
    IF n < d * (2 ^ (FloatBits - 1)) THEN Mantissa(2 * n, d, sn, 2 * sd)
    ELSE IF n >= d * (2 ^ FloatBits) THEN Mantissa(n, 2 * d, 2 * sn, sd)
    ELSE <<RoundEven(n, d) * sn, sd>>

\* <<n, d>> in lowest terms, d > 0.
Lowest(n, d) ==
    <<(Sign(d) * n) \div GCD(abs(n), abs(d)),
      abs(d) \div GCD(abs(n), abs(d))>>

\* The float64 nearest to the rational r (in lowest terms).
Nearest(r) ==
    IF r[2] \in PowersOfTwo /\ abs(r[1]) < 2 ^ FloatBits THEN r
    ELSE Lowest(Sign(r[1]) * Mantissa(abs(r[1]), r[2], 1, 1)[1],
                Mantissa(abs(r[1]), r[2], 1, 1)[2])

\* The float64 value n / d of two integers.
Ratio(n, d) ==
    IF d = 0 THEN <<Sign(n), 0>>
    ELSE IF n = 0 THEN <<0, 1>>
    ELSE Nearest(Lowest(n, d))

NaN == <<0, 0>>
FInt(i) == Nearest(<<i, 1>>)
FHalf == <<1, 2>>
IsNaN(a) == a[1] = 0 /\ a[2] = 0
IsFinite(a) == a[2] # 0

FAdd(a, b) ==
    IF IsNaN(a) \/ IsNaN(b) THEN NaN
    ELSE IF a[2] = 0 /\ b[2] = 0 THEN (IF a[1] = b[1] THEN a ELSE NaN)
    ELSE IF a[2] = 0 THEN a
    ELSE IF b[2] = 0 THEN b
    ELSE Ratio(a[1] * (max(a[2], b[2]) \div a[2])
                 + b[1] * (max(a[2], b[2]) \div b[2]), max(a[2], b[2]))

FNeg(a) == <<-a[1], a[2]>>
FSub(a, b) == FAdd(a, FNeg(b))

\* a * k and a / k for an integer constant k > 0.
FMulInt(a, k) == IF a[2] = 0 THEN a ELSE Ratio(a[1] * k, a[2])
FDivInt(a, k) == IF a[2] = 0 THEN a ELSE Ratio(a[1], a[2] * k)

\* a / b for finite a and b.
FDiv(a, b) == Ratio(a[1] * b[2], a[2] * b[1])

\* Comparisons; every comparison with NaN is false.
FLt(a, b) ==
    IF IsNaN(a) \/ IsNaN(b) THEN FALSE
    ELSE IF a[2] = 0 /\ b[2] = 0 THEN a[1] < b[1]
    ELSE a[1] * b[2] < b[1] * a[2]
FGt(a, b) == FLt(b, a)
FEq(a, b) == ~IsNaN(a) /\ ~IsNaN(b) /\ a = b
FGe(a, b) == FGt(a, b) \/ FEq(a, b)

\* int(x): truncation toward zero; of a NaN, the build's value nv.
ToInt(x, nv) ==
    IF x[2] = 0 THEN nv
    ELSE IF x[1] >= 0 THEN x[1] \div x[2] ELSE -((-x[1]) \div x[2])

\* ------------------------------------------------------------------------
\* mfm.EdgeDetect
\* ------------------------------------------------------------------------
EdgeToNone == "N"
EdgeToHigh == "H"
EdgeToLow == "L"

\* s[i] and len(s) of EdgeDetect.Samples.
S(i) == Samples[i + 1]
NS == Len(Samples)

\* intersectXAxis that divides the second value instead of the first.
intersectXAxis_ofSecond(y1, y2) == FDiv(FInt(y2), FInt(Wrap(y1 - y2)))

\* float64(y1) / float64(y1-y2)
intersectXAxis(y1, y2) == FDiv(FInt(y1), FInt(Wrap(y1 - y2)))

\* A detector record after NewEdgeDetect, with MaxCrossingTime set to m.
NewEdgeDetect(m) ==
    [MaxCrossingTime |-> m,
     CurIndex |-> 0, CurType |-> EdgeToNone, CurZero |-> FInt(0),
     PrevIndex |-> 0, PrevType |-> EdgeToNone, PrevZero |-> FInt(0)]

\* The result of one call: the new fields and what was returned ("true",
\* "false", or "panic" for the run-time panic of an index out of range).
Result(d, r) == [e |-> d, ret |-> r]

SetCur(d, idx, typ, zero) ==
    [d EXCEPT !.CurIndex = idx, !.CurType = typ, !.CurZero = zero]

\* for i < len(s) && s[i] <= noise && s[i] >= -noise { i++ }
RECURSIVE skipNoise(_)
skipNoise(i) ==
    IF i < NS /\ S(i) <= NoiseFloor /\ S(i) >= -NoiseFloor
    THEN skipNoise(i + 1) ELSE i

\* for j := i - 1; j >= until; j-- { if s[j] <= 0 { ...; break } }
\* (high = TRUE) or s[j] >= 0 (high = FALSE); the j found, or -1.
RECURSIVE crossingBefore(_, _, _)
crossingBefore(j, until, high) ==
    IF j < until THEN -1
    ELSE IF (high /\ S(j) <= 0) \/ (~high /\ S(j) >= 0) THEN j
    ELSE crossingBefore(j - 1, until, high)

\* The type of the edge at the beyond-noise sample i.
typeAt(i) == IF S(i) > NoiseFloor THEN EdgeToHigh ELSE EdgeToLow

\* from: no further back than the max crossing time, and not all the way
\* back to the previous edge.
lookBackFrom(d, i) ==
    IF Wrap(i - d.MaxCrossingTime) <= d.PrevIndex
    THEN d.PrevIndex + 1
    ELSE Wrap(i - d.MaxCrossingTime)

\* if zc > hi { zc = hi }      and      if zc < lo { zc = lo }
clampAbove(zc, hi) == IF FGt(zc, hi) THEN hi ELSE zc
clampBelow(zc, lo) == IF FLt(zc, lo) THEN lo ELSE zc

\* The edge nextFromNone places: at the crossing j its loop found, else
\* (j = -1) at end.
fromNoneEdge(d, i, zc, end, j) ==
    IF j >= 0
    THEN Result(SetCur(d, j + 1, typeAt(i),
                  FAdd(FInt(j), intersectXAxis(S(j), S(j + 1)))),
                "true")
    ELSE Result(SetCur(d, end, typeAt(i), zc), "true")

\* until := end - (i - end), raised to from; then the loop from i - 1.
fromNoneAround(d, i, zc, end) ==
    fromNoneEdge(d, i, zc, end,
        crossingBefore(i - 1,
            IF Wrap(end - (i - end)) < lookBackFrom(d, i)
            THEN lookBackFrom(d, i)
            ELSE Wrap(end - (i - end)),
            typeAt(i) = EdgeToHigh))

\* end := int(0.5 + zc)
fromNoneBack(d, i, zc, nv) ==
    fromNoneAround(d, i, zc, ToInt(FAdd(FHalf, zc), nv))

\* nextFromNone once its first loop has stopped at i.
fromNoneAt(d, i, nv) ==
    IF i >= NS THEN Result(SetCur(d, i, EdgeToNone, FInt(i)), "false")
    ELSE IF i <= 0 THEN Result(SetCur(d, i, typeAt(i), FInt(i)), "true")
    ELSE fromNoneBack(d, i,
             clampBelow(
                 clampAbove(FAdd(FSub(FInt(i), FInt(1)),
                                 intersectXAxis(S(i - 1), S(i))),
                            FInt(i)),
                 FInt(lookBackFrom(d, i))),
             nv)

nextFromNone(d, nv) ==
    IF d.CurIndex < 0 THEN Result(d, "panic")
    ELSE fromNoneAt(d, skipNoise(d.CurIndex), nv)

\* for i++; i < len(s) && s[i] <= noise && i-ld <= maxTime; i++ {
\*     if s[i] < -noise { ld = i } }      the final <<i, ld>>
RECURSIVE scanFromLow(_, _, _)
scanFromLow(i, ld, maxTime) ==
    IF i < NS /\ S(i) <= NoiseFloor /\ i - ld <= maxTime
    THEN scanFromLow(i + 1, IF S(i) < -NoiseFloor THEN i ELSE ld, maxTime)
    ELSE <<i, ld>>

RECURSIVE scanFromHigh(_, _, _)
scanFromHigh(i, ld, maxTime) ==
    IF i < NS /\ S(i) >= -NoiseFloor /\ i - ld <= maxTime
    THEN scanFromHigh(i + 1, IF S(i) > NoiseFloor THEN i ELSE ld, maxTime)
    ELSE <<i, ld>>

\* for i--; s[i] > 0; { i-- }     (and s[i] < 0 from a high)
RECURSIVE backWhilePositive(_)
backWhilePositive(i) == IF S(i) > 0 THEN backWhilePositive(i - 1) ELSE i

RECURSIVE backWhileNegative(_)
backWhileNegative(i) == IF S(i) < 0 THEN backWhileNegative(i - 1) ELSE i

\* for j := ld + 1; j < last; j++ { if s[j] >= 0 { ...; break } }
\* (low = TRUE) or s[j] <= 0 (low = FALSE); the j found, or -1.
RECURSIVE crossingAfter(_, _, _)
crossingAfter(j, last, low) ==
    IF j >= last THEN -1
    ELSE IF (low /\ S(j) >= 0) \/ (~low /\ S(j) <= 0) THEN j
    ELSE crossingAfter(j + 1, last, low)

\* The edge to none that both nextFromLow and nextFromHigh place after the
\* scan stopped at i with the last beyond-noise sample at ld: at the
\* crossing j their last loop found, else (j = -1) at end.
toNoneEdge(d, zc, end, j) ==
    IF j >= 0
    THEN Result(SetCur(d, j, EdgeToNone,
                  FAdd(FSub(FInt(j), FInt(1)),
                       intersectXAxis(S(j - 1), S(j)))),
                "true")
    ELSE Result(SetCur(d, end, EdgeToNone, zc), "true")

\* last := end + (end - ld), lowered to i; then the loop from ld + 1.
toNoneAround(d, i, ld, low, zc, end) ==
    toNoneEdge(d, zc, end,
        crossingAfter(ld + 1,
            IF Wrap(end + Wrap(end - ld)) > i
            THEN i
            ELSE Wrap(end + Wrap(end - ld)),
            low))

\* end := int(0.5 + zc)
toNoneBack(d, i, ld, low, zc, nv) ==
    toNoneAround(d, i, ld, low, zc, ToInt(FAdd(FHalf, zc), nv))

edgeToNone(d, i, ld, low, nv) ==
    IF ld + 1 >= NS
    THEN Result(SetCur(d, NS, EdgeToNone, FInt(NS)), "true")
    ELSE toNoneBack(d, i, ld, low,
             clampBelow(
                 clampAbove(FAdd(FInt(ld), intersectXAxis(S(ld), S(ld + 1))),
                            FInt(i)),
                 FInt(ld)),
             nv)

\* The edge of type typ at the zero crossing after sample k.
crossedEdge(d, k, typ) ==
    Result(SetCur(d, k + 1, typ,
             FAdd(FInt(k), intersectXAxis(S(k), S(k + 1)))),
           "true")

\* nextFromLow once its first loop has stopped with <<i, ld>> = sc.
fromLowAt(d, sc, nv) ==
    IF sc[1] < NS /\ S(sc[1]) > NoiseFloor
    THEN crossedEdge(d, backWhilePositive(sc[1] - 1), EdgeToHigh)
    ELSE edgeToNone(d, sc[1], sc[2], TRUE, nv)

nextFromLow(d, nv) ==
    fromLowAt(d, scanFromLow(d.CurIndex + 1, d.CurIndex, d.MaxCrossingTime),
              nv)

\* fromHighAt that still sets the type that nextFromLow sets for the edge
\* it finds.
fromHighAt_typeOfLow(d, sc, nv) ==
    IF sc[1] < NS /\ S(sc[1]) < -NoiseFloor
    THEN crossedEdge(d, backWhileNegative(sc[1] - 1), EdgeToHigh)
    ELSE edgeToNone(d, sc[1], sc[2], FALSE, nv)

\* nextFromHigh once its first loop has stopped with <<i, ld>> = sc.
fromHighAt(d, sc, nv) ==
    IF sc[1] < NS /\ S(sc[1]) < -NoiseFloor
    THEN crossedEdge(d, backWhileNegative(sc[1] - 1), EdgeToLow)
    ELSE edgeToNone(d, sc[1], sc[2], FALSE, nv)

nextFromHigh(d, nv) ==
    fromHighAt(d, scanFromHigh(d.CurIndex + 1, d.CurIndex, d.MaxCrossingTime),
               nv)

\* e.PrevIndex, e.PrevType = e.CurIndex, e.CurType; e.PrevZero = e.CurZero
shiftPrev(d) ==
    [d EXCEPT !.PrevIndex = d.CurIndex, !.PrevType = d.CurType,
              !.PrevZero = d.CurZero]

\* EdgeDetect.Next on the fields d, on a build whose int(NaN) is nv.
EdgeNext(d, nv) ==
    IF d.CurIndex >= NS
    THEN Result([shiftPrev(d) EXCEPT !.CurType = EdgeToNone], "false")
    ELSE IF d.CurType = EdgeToNone THEN nextFromNone(shiftPrev(d), nv)
    ELSE IF d.CurType = EdgeToLow THEN nextFromLow(shiftPrev(d), nv)
    ELSE nextFromHigh(shiftPrev(d), nv)

\* ------------------------------------------------------------------------
\* mfm.PulseClassifier
\* ------------------------------------------------------------------------
PulseUnknown == "U"
PulseTiny == "T"
PulseShort == "S"
PulseMedium == "M"
PulseLong == "L4"
PulseHuge == "X"

DefaultBitRate == 4800
\* cap(c.BitWidths)
BWCap == 16
\* The number of pulses the lead-in peek averages.
PeekPulses == 8
\* The sample rate peekAtLeadIn assumes when MaxCrossingTime is unset.
PeekSampleRate == 44100

ExpectedBitWidth(mfmBitRate, sampleRate) ==
    Ratio(sampleRate, IF mfmBitRate = 0 THEN DefaultBitRate ELSE mfmBitRate)

NewPulseClassifier ==
    [BitWidth |-> FInt(0), Class |-> PulseUnknown, Width |-> FInt(0),
     BitWidths |-> <<>>, BWIndex |-> 0, BWTotal |-> FInt(0)]

TouchesNone(d) == d.PrevType = EdgeToNone \/ d.CurType = EdgeToNone

updateCrossingTime(d, bitWidth, nv) ==
    [d EXCEPT !.MaxCrossingTime = ToInt(FAdd(bitWidth, FHalf), nv)]

\* SetBitWidth without c.BWIndex = 0.
SetBitWidth_indexKept(k, d, bitWidth, nv) ==
    IF FLt(bitWidth, FInt(2))
    THEN [c |-> k, e |-> d, panic |-> TRUE]
    ELSE [c |-> [k EXCEPT !.BitWidths = [i \in 1 .. BWCap |-> bitWidth],
                          !.BWTotal = FMulInt(bitWidth, BWCap),
                          !.BitWidth = bitWidth],
          e |-> updateCrossingTime(d, bitWidth, nv),
          panic |-> FALSE]

\* SetBitWidth on the classifier fields k and detector fields d.
SetBitWidth(k, d, bitWidth, nv) ==
    IF FLt(bitWidth, FInt(2))
    THEN [c |-> k, e |-> d, panic |-> TRUE]
    ELSE [c |-> [k EXCEPT !.BitWidths = [i \in 1 .. BWCap |-> bitWidth],
                          !.BWTotal = FMulInt(bitWidth, BWCap),
                          !.BWIndex = 0,
                          !.BitWidth = bitWidth],
          e |-> updateCrossingTime(d, bitWidth, nv),
          panic |-> FALSE]

\* The history and its total with bitWidth added: appended while there is
\* room, else written over the oldest entry.
pushBitWidth(k, bitWidth) ==
    IF Len(k.BitWidths) < BWCap
    THEN [k EXCEPT !.BWTotal = FAdd(k.BWTotal, bitWidth),
                   !.BitWidths = Append(k.BitWidths, bitWidth)]
    ELSE [k EXCEPT !.BWTotal = FAdd(FSub(k.BWTotal,
                                         k.BitWidths[k.BWIndex + 1]),
                                    bitWidth),
                   !.BitWidths = [k.BitWidths EXCEPT
                                    ![k.BWIndex + 1] = bitWidth],
                   !.BWIndex = IF k.BWIndex + 1 >= Len(k.BitWidths)
                               THEN 0 ELSE k.BWIndex + 1]

\* c.BitWidth = c.BWTotal / float64(len(c.BitWidths))
averageBitWidth(k) ==
    [k EXCEPT !.BitWidth = FDivInt(k.BWTotal, Len(k.BitWidths))]

addBitWidth(k, d, bitWidth, nv) ==
    [c |-> averageBitWidth(pushBitWidth(k, bitWidth)),
     e |-> updateCrossingTime(d, bitWidth, nv)]

\* Where the body of peekAtLeadIn stands when it ends: what it returns,
\* the detector, total and count, and for the properties: calls, the
\* Edges.Next calls the peek has made, and seen, the detector at each
\* pulse the loop has counted.
PeekState(ok, d, total, count, calls, seen) ==
    [ok |-> ok, e |-> d, total |-> total, count |-> count, calls |-> calls,
     seen |-> seen]

\* The loop of peekAtLeadIn, entered with the detector at d, total and
\* count so far.
RECURSIVE peekLoop(_, _, _, _, _, _)
RECURSIVE peekCounted(_, _, _, _, _, _)
RECURSIVE peekStepped(_, _, _, _, _, _)

\* The loop after its call of Edges.Next gave r.
peekStepped(r, total, count, calls, seen, nv) ==
    IF r.ret = "true"
    THEN peekLoop(r.e, total, count, calls, seen, nv)
    ELSE PeekState(r.ret, r.e, total, count, calls, seen)

\* The loop after total += width and count++.
peekCounted(d, total, count, calls, seen, nv) ==
    IF count >= PeekPulses
    THEN PeekState("true", d, total, count, calls, seen)
    ELSE peekStepped(
             EdgeNext(updateCrossingTime(d, FDivInt(total, count), nv), nv),
             total, count, calls + 1, seen, nv)

peekLoop(d, total, count, calls, seen, nv) ==
    IF TouchesNone(d)
    THEN PeekState("false", d, total, count, calls, seen)
    ELSE peekCounted(d, FAdd(total, FSub(d.CurZero, d.PrevZero)), count + 1,
                     calls, Append(seen, d), nv)

\* peekAtLeadIn without its deferred function: the detector stays where
\* the peek left it.
peekRestore_notDeferred(edgesBackup, d, ok) == d

\* peekAtLeadIn copying the crossing time to the backup before it knows
\* that the peek succeeds.
peekRestore_copiesAlways(edgesBackup, d, ok) ==
    [edgesBackup EXCEPT !.MaxCrossingTime = d.MaxCrossingTime]

\* What the deferred function of peekAtLeadIn leaves in *c.Edges: the
\* backup, carrying the new MaxCrossingTime after a successful peek.
peekRestore(edgesBackup, d, ok) ==
    IF ok = "true"
    THEN [edgesBackup EXCEPT !.MaxCrossingTime = d.MaxCrossingTime]
    ELSE edgesBackup

\* The peek after the second Edges.Next of its first part gave r.
peekSecond(r, nv) ==
    IF r.ret # "true"
    THEN PeekState(r.ret, r.e, FInt(0), 0, 2, <<>>)
    ELSE peekLoop(r.e, FInt(0), 0, 2, <<>>, nv)

\* The peek after the first Edges.Next of its first part gave r: the
\* detector is set back to the backup d and the edge is done again.
peekFirst(d, r, nv) ==
    IF r.ret # "true"
    THEN PeekState(r.ret, r.e, FInt(0), 0, 1, <<>>)
    ELSE peekSecond(
             EdgeNext(updateCrossingTime(d, FSub(r.e.CurZero, r.e.PrevZero),
                                         nv),
                      nv),
             nv)

\* The body of peekAtLeadIn up to the end of its loop.
peekRun(d, nv) ==
    IF d.PrevType # EdgeToNone THEN peekLoop(d, FInt(0), 0, 0, <<>>, nv)
    ELSE peekFirst(d,
             EdgeNext(IF d.MaxCrossingTime = 0
                      THEN updateCrossingTime(d,
                               ExpectedBitWidth(DefaultBitRate,
                                                PeekSampleRate),
                               nv)
                      ELSE d,
                      nv),
             nv)

\* What peekAtLeadIn leaves: what it returned, the classifier fields k and
\* the detector fields d, and for the properties what the peek did: the
\* detector as it found it, and calls, total, count and seen of its body.
Peeked(ok, k, d, edgesBackup, lp) ==
    [ok |-> ok, c |-> k, e |-> d,
     did |-> [ok |-> ok, before |-> edgesBackup, calls |-> lp.calls,
              total |-> lp.total, count |-> lp.count, seen |-> lp.seen]]

\* The end of peekAtLeadIn after SetBitWidth gave sb.
peekSet(k, edgesBackup, lp, sb) ==
    IF sb.panic
    THEN Peeked("panic", k, peekRestore(edgesBackup, lp.e, "panic"),
                edgesBackup, lp)
    ELSE Peeked("true", sb.c, peekRestore(edgesBackup, sb.e, "true"),
                edgesBackup, lp)

\* peekEnd setting the bit width to the total of the pulses.
peekEnd_setsTotal(k, edgesBackup, lp, nv) ==
    IF lp.ok # "true"
    THEN Peeked(lp.ok, k, peekRestore(edgesBackup, lp.e, lp.ok),
                edgesBackup, lp)
    ELSE peekSet(k, edgesBackup, lp, SetBitWidth(k, lp.e, lp.total, nv))

\* The end of peekAtLeadIn after its loop gave lp.
peekEnd(k, edgesBackup, lp, nv) ==
    IF lp.ok # "true"
    THEN Peeked(lp.ok, k, peekRestore(edgesBackup, lp.e, lp.ok),
                edgesBackup, lp)
    ELSE peekSet(k, edgesBackup, lp,
                 SetBitWidth(k, lp.e, FDivInt(lp.total, lp.count), nv))

\* peekAtLeadIn: ok is what it returned ("true", "false") or "panic".
peekAtLeadIn(k, d, nv) == peekEnd(k, d, peekRun(d, nv), nv)

\* The switch with its first case comparing with bitWidth*5, the factor of
\* the second case.
classify_firstCaseFive(pulseWidth, bitWidth) ==
    IF FLt(FMulInt(pulseWidth, 4), FMulInt(bitWidth, 5)) THEN PulseTiny
    ELSE IF FLt(FMulInt(pulseWidth, 4), FMulInt(bitWidth, 7)) THEN PulseMedium
    ELSE IF FLt(FMulInt(pulseWidth, 4), FMulInt(bitWidth, 9)) THEN PulseLong
    ELSE PulseHuge

\* The switch of PulseClassifier.Next.
classify(pulseWidth, bitWidth) ==
    IF FLt(FMulInt(pulseWidth, 4), FMulInt(bitWidth, 3)) THEN PulseTiny
    ELSE IF FLt(FMulInt(pulseWidth, 4), FMulInt(bitWidth, 5)) THEN PulseShort
    ELSE IF FLt(FMulInt(pulseWidth, 4), FMulInt(bitWidth, 7)) THEN PulseMedium
    ELSE IF FLt(FMulInt(pulseWidth, 4), FMulInt(bitWidth, 9)) THEN PulseLong
    ELSE PulseHuge

\* The bit-width estimate that the switch adds for a valid pulse.
estimate(class, pulseWidth) ==
    IF class = PulseShort THEN pulseWidth
    ELSE IF class = PulseMedium THEN FDivInt(FMulInt(pulseWidth, 2), 3)
    ELSE FDivInt(pulseWidth, 2)

\* What a call of PulseClassifier.Next leaves: the classifier fields k, the
\* detector fields d, what it returned, and for the properties: used, the
\* bit width the switch compared with (0 when the switch did not run), and
\* peek, what the lead-in peek did.
Outcome(k, d, ret, used, peek) ==
    [c |-> k, e |-> d, ret |-> ret, used |-> used, peek |-> peek]

\* The lead-in peek did not run; the detector was at d.
PeekNone(d) ==
    [ok |-> "none", before |-> d, calls |-> 0, total |-> FInt(0),
     count |-> 0, seen |-> <<>>]

\* The switch of Next adding an estimate in its default case too.
pulseClassed_addsOnHuge(k, d, cls, peek, nv) ==
    IF cls \in {PulseShort, PulseMedium, PulseLong, PulseHuge}
    THEN Outcome(
             addBitWidth([k EXCEPT !.Class = cls], d,
                         estimate(cls, k.Width), nv).c,
             addBitWidth([k EXCEPT !.Class = cls], d,
                         estimate(cls, k.Width), nv).e,
             "true", k.BitWidth, peek)
    ELSE Outcome([k EXCEPT !.Class = cls], d, "true", k.BitWidth, peek)

\* The switch of Next having given class cls.
pulseClassed(k, d, cls, peek, nv) ==
    IF cls \in {PulseShort, PulseMedium, PulseLong}
    THEN Outcome(
             addBitWidth([k EXCEPT !.Class = cls], d,
                         estimate(cls, k.Width), nv).c,
             addBitWidth([k EXCEPT !.Class = cls], d,
                         estimate(cls, k.Width), nv).e,
             "true", k.BitWidth, peek)
    ELSE Outcome([k EXCEPT !.Class = cls], d, "true", k.BitWidth, peek)

\* Next after peekAtLeadIn gave pk.
pulsePeeked(k, pk, nv) ==
    IF pk.ok = "panic"
    THEN Outcome(k, pk.e, "panic", FInt(0), pk.did)
    ELSE IF pk.ok = "false"
    THEN Outcome([k EXCEPT !.Class = PulseUnknown], pk.e, "true", FInt(0),
                 pk.did)
    ELSE pulseClassed(pk.c, pk.e, classify(pk.c.Width, pk.c.BitWidth),
                      pk.did, nv)

\* pulseMeasured with the peek run on every pulse that starts at a ToNone
\* edge, whatever BitWidth is.
pulseMeasured_peeksAtStart(k, d, nv) ==
    IF FEq(k.BitWidth, FInt(0)) \/ d.PrevType = EdgeToNone
    THEN pulsePeeked(k, peekAtLeadIn(k, d, nv), nv)
    ELSE pulseClassed(k, d, classify(k.Width, k.BitWidth), PeekNone(d), nv)

\* Next after c.Width was set.
pulseMeasured(k, d, nv) ==
    IF FEq(k.BitWidth, FInt(0))
    THEN pulsePeeked(k, peekAtLeadIn(k, d, nv), nv)
    ELSE pulseClassed(k, d, classify(k.Width, k.BitWidth), PeekNone(d), nv)

\* Next after its call of Edges.Next gave r.
pulseAfterEdge(k, r, nv) ==
    IF r.ret # "true"
    THEN Outcome(k, r.e, r.ret, FInt(0), PeekNone(r.e))
    ELSE pulseMeasured([k EXCEPT !.Width = FSub(r.e.CurZero, r.e.PrevZero)],
                       r.e, nv)

\* PulseClassifier.Next on the classifier fields k and detector fields d.
PulseNext(k, d, nv) == pulseAfterEdge(k, EdgeNext(d, nv), nv)

\* ------------------------------------------------------------------------
\* filter.DCOffset
\* ------------------------------------------------------------------------
\* The PeakWidth that Run substitutes for a PeakWidth <= 0 (48000 / 4800).
DefaultPeakWidth == 10

\* The fields after NewDCOffset(noiseFloor, peakWidth), together with the
\* slices of the Run call to come: alias tells that output is the input
\* slice itself, written the indices of out that Run has assigned; mark,
\* when it is not 0, is what a read of data at a written index yields.
NewDCOffset(noiseFloor, peakWidth, input, output, alias) ==
    [NoiseFloor |-> noiseFloor, PeakWidth |-> peakWidth,
     data |-> input, out |-> output, alias |-> alias,
     offset |-> 0, pos |-> 0, noiseLevel |-> noiseFloor, written |-> {},
     mark |-> 0]

\* The one element of a set of one element.  A recursive operator passes
\* its next arguments through it, Only({Op(x) : x \in {v}}), so that v is
\* computed once, as the program computes it.
Only(set) == CHOOSE x \in set : TRUE

\* data[i] and len(data)
D(g, i) == IF g.mark # 0 /\ i \in g.written THEN g.mark ELSE g.data[i + 1]
ND(g) == Len(g.data)

\* out[i] = v; the same element of data when the slices are one.
Write(g, i, v) ==
    [g EXCEPT !.out = [g.out EXCEPT ![i + 1] = v],
              !.data = IF g.alias THEN [g.data EXCEPT ![i + 1] = v]
                       ELSE g.data,
              !.written = g.written \cup {i}]

\* lowHigh(data[from:to]) as <<low, high>>
lowHigh(g, from, to) ==
    LET vs == {D(g, i) : i \in from .. (to - 1)}
    IN <<CHOOSE v \in vs : \A u \in vs : v <= u,
         CHOOSE v \in vs : \A u \in vs : v >= u>>

outsideNoise(g, pos) ==
    pos < ND(g) /\ abs(D(g, pos) - g.offset) > g.noiseLevel

withinNoise(g, pos) ==
    pos < ND(g) /\ abs(D(g, pos) - g.offset) <= g.noiseLevel

\* leadingNoise with the offset set to the middle of the window, not to
\* its average with the old offset.
RECURSIVE leadingNoise_offsetIsMiddle(_)
leadingNoise_offsetIsMiddle(g) ==
    IF g.pos >= ND(g) THEN g
    ELSE
    LET to == min(g.pos + g.PeakWidth, ND(g))
        lh == lowHigh(g, g.pos, to)
        dlo == abs(lh[1] - g.offset)
        dhi == abs(lh[2] - g.offset)
        nl == g.noiseLevel
        nf == g.NoiseFloor
        maxV == max(dlo, dhi)
        nl1 == IF nl > nf /\ (maxV * 2 < nl \/ maxV * 4 < nf * 3)
               THEN max(nf, nl - GoDiv(nl, 8)) ELSE nl
        offset == GoDiv(lh[1] + lh[2], 2)
    IN IF dlo > nl \/ dhi > nl THEN g
       ELSE Only({leadingNoise_offsetIsMiddle(x) : x \in
              {[Write(g, g.pos, D(g, g.pos) - offset)
                  EXCEPT !.offset = offset, !.noiseLevel = nl1,
                         !.pos = g.pos + 1]}})

\* leadingNoise that looks for a peak on the high side of the window only.
RECURSIVE leadingNoise_highOnly(_)
leadingNoise_highOnly(g) ==
    IF g.pos >= ND(g) THEN g
    ELSE
    LET to == min(g.pos + g.PeakWidth, ND(g))
        lh == lowHigh(g, g.pos, to)
        dlo == abs(lh[1] - g.offset)
        dhi == abs(lh[2] - g.offset)
        nl == g.noiseLevel
        nf == g.NoiseFloor
        maxV == max(dlo, dhi)
        nl1 == IF nl > nf /\ (maxV * 2 < nl \/ maxV * 4 < nf * 3)
               THEN max(nf, nl - GoDiv(nl, 8)) ELSE nl
        offset == GoDiv(g.offset + GoDiv(lh[1] + lh[2], 2), 2)
    IN IF dhi > nl THEN g
       ELSE Only({leadingNoise_highOnly(x) : x \in
              {[Write(g, g.pos, D(g, g.pos) - offset)
                  EXCEPT !.offset = offset, !.noiseLevel = nl1,
                         !.pos = g.pos + 1]}})

RECURSIVE leadingNoise(_)
leadingNoise(g) ==
    IF g.pos >= ND(g) THEN g
    ELSE
    LET to == min(g.pos + g.PeakWidth, ND(g))
        lh == lowHigh(g, g.pos, to)
        dlo == abs(lh[1] - g.offset)
        dhi == abs(lh[2] - g.offset)
        nl == g.noiseLevel
        nf == g.NoiseFloor
        maxV == max(dlo, dhi)
        nl1 == IF nl > nf /\ (maxV * 2 < nl \/ maxV * 4 < nf * 3)
               THEN max(nf, nl - GoDiv(nl, 8)) ELSE nl
        offset == GoDiv(g.offset + GoDiv(lh[1] + lh[2], 2), 2)
    IN IF dlo > nl \/ dhi > nl THEN g
       ELSE Only({leadingNoise(x) : x \in
              {[Write(g, g.pos, D(g, g.pos) - offset)
                  EXCEPT !.offset = offset, !.noiseLevel = nl1,
                         !.pos = g.pos + 1]}})

\* clampToNoise without the case of a value below the noise floor.
clampToNoise_aboveOnly(g, offset, val) ==
    IF Wrap(val - offset) > g.NoiseFloor THEN Wrap(val - g.NoiseFloor)
    ELSE offset

clampToNoise(g, offset, val) ==
    IF Wrap(val - offset) > g.NoiseFloor THEN Wrap(val - g.NoiseFloor)
    ELSE IF Wrap(val - offset) < Wrap(-g.NoiseFloor)
    THEN Wrap(val + g.NoiseFloor)
    ELSE offset

\* updateNoiseLevel without the lower limit NoiseFloor.
updateNoiseLevel_noFloor(g, offset, tip1, tip2) ==
    LET tipLevel == min(abs(tip1 - offset), abs(tip2 - offset))
    IN [g EXCEPT !.noiseLevel = GoDiv(tipLevel, 10)]

updateNoiseLevel(g, offset, tip1, tip2) ==
    LET tipLevel == min(abs(tip1 - offset), abs(tip2 - offset))
    IN [g EXCEPT !.noiseLevel = max(g.NoiseFloor, GoDiv(tipLevel, 10))]

\* The loop of applyOffsetUntil from pos on.
RECURSIVE applyOffsetFrom(_, _, _)
applyOffsetFrom(g, pos, end) ==
    IF pos < end
    THEN Only({applyOffsetFrom(x, pos + 1, end) : x \in
                 {Write(g, pos, D(g, pos) - g.offset)}})
    ELSE [g EXCEPT !.pos = pos]

\* applyOffsetUntil without its last line, f.pos = pos.
applyOffsetUntil_posNotStored(g, end) ==
    [applyOffsetFrom(g, g.pos, end) EXCEPT !.pos = g.pos]

applyOffsetUntil(g, end) == applyOffsetFrom(g, g.pos, end)

\* The loop of findLowPeak setting Next, after a peak width of noise, to
\* the last sample of the peak and not to the one after it.
RECURSIVE findLowLoop_nextIsEnd(_, _, _, _)
findLowLoop_nextIsEnd(g, peak, p, stop) ==
    IF stop > 0 /\ p < ND(g) /\ D(g, p) - g.offset <= g.noiseLevel
    THEN LET pk == IF D(g, p) < peak.Value
                   THEN [peak EXCEPT !.Value = D(g, p), !.Index = p]
                   ELSE peak
         IN IF D(g, p) - g.offset < -g.noiseLevel
            THEN Only({findLowLoop_nextIsEnd(g, x, p + 1, stop - 1) : x \in
                         {[pk EXCEPT !.End = p]}})
            ELSE IF p - pk.End > g.PeakWidth
            THEN [pk EXCEPT !.Next = pk.End]
            ELSE Only({findLowLoop_nextIsEnd(g, x, p + 1, stop - 1) :
                       x \in {pk}})
    ELSE [peak EXCEPT !.End = IF stop <= 0 THEN -1 ELSE peak.End,
                      !.Next = p]

\* The loop of findLowPeak at p with stop steps left.
RECURSIVE findLowLoop(_, _, _, _)
findLowLoop(g, peak, p, stop) ==
    IF stop > 0 /\ p < ND(g) /\ D(g, p) - g.offset <= g.noiseLevel
    THEN LET pk == IF D(g, p) < peak.Value
                   THEN [peak EXCEPT !.Value = D(g, p), !.Index = p]
                   ELSE peak
         IN IF D(g, p) - g.offset < -g.noiseLevel
            THEN Only({findLowLoop(g, x, p + 1, stop - 1) : x \in
                         {[pk EXCEPT !.End = p]}})
            ELSE IF p - pk.End > g.PeakWidth
            THEN [pk EXCEPT !.Next = pk.End + 1]
            ELSE Only({findLowLoop(g, x, p + 1, stop - 1) : x \in {pk}})
    ELSE [peak EXCEPT !.End = IF stop <= 0 THEN -1 ELSE peak.End,
                      !.Next = p]

RECURSIVE findHighLoop(_, _, _, _)
findHighLoop(g, peak, p, stop) ==
    IF stop > 0 /\ p < ND(g) /\ D(g, p) - g.offset >= -g.noiseLevel
    THEN LET pk == IF D(g, p) > peak.Value
                   THEN [peak EXCEPT !.Value = D(g, p), !.Index = p]
                   ELSE peak
         IN IF D(g, p) - g.offset > g.noiseLevel
            THEN Only({findHighLoop(g, x, p + 1, stop - 1) : x \in
                         {[pk EXCEPT !.End = p]}})
            ELSE IF p - pk.End > g.PeakWidth
            THEN [pk EXCEPT !.Next = pk.End + 1]
            ELSE Only({findHighLoop(g, x, p + 1, stop - 1) : x \in {pk}})
    ELSE [peak EXCEPT !.End = IF stop <= 0 THEN -1 ELSE peak.End,
                      !.Next = p]

NewPeak(g, start) ==
    [Value |-> D(g, start), Index |-> start, Start |-> start,
     End |-> start, Next |-> 0]

findLowPeak(g, start) ==
    Only({findLowLoop(g, peak, start, start + g.PeakWidth * 6) :
          peak \in {NewPeak(g, start)}})

findHighPeak(g, start) ==
    Only({findHighLoop(g, peak, start, start + g.PeakWidth * 6) :
          peak \in {NewPeak(g, start)}})

findPeakAt(g, start) ==
    IF D(g, start) - g.offset < 0 THEN findLowPeak(g, start)
    ELSE findHighPeak(g, start)

\* The first loop of handleLeadingEdge: <<fields, pos>> when it ends.
RECURSIVE leadingSlope(_, _, _, _, _)
leadingSlope(g, pos, peak, peakOffset, peakSign) ==
    IF pos >= peak.Start /\ ((D(g, pos) - peakOffset < 0) = peakSign)
    THEN Only({leadingSlope(x, pos - 1, peak, peakOffset, peakSign) :
                 x \in {Write(g, pos, D(g, pos) - peakOffset)}})
    ELSE <<g, pos>>

\* The second loop of handleLeadingEdge clamping to the sample after pos,
\* which the pass before has written.
RECURSIVE leadingClamp_readsNext(_, _, _, _)
leadingClamp_readsNext(g, pos, offset, low) ==
    IF pos >= low
    THEN LET off == clampToNoise(g, offset, D(g, pos + 1))
         IN Only({leadingClamp_readsNext(x[1], pos - 1, x[2], low) : x \in
                    {<<Write(g, pos, D(g, pos) - off),
                       GoDiv(off + g.offset, 2)>>}})
    ELSE g

\* The second loop of handleLeadingEdge stopping one sample early, above
\* the index low.
RECURSIVE leadingClamp_aboveLow(_, _, _, _)
leadingClamp_aboveLow(g, pos, offset, low) ==
    IF pos > low
    THEN LET off == clampToNoise(g, offset, D(g, pos))
         IN Only({leadingClamp_aboveLow(x[1], pos - 1, x[2], low) : x \in
                    {<<Write(g, pos, D(g, pos) - off),
                       GoDiv(off + g.offset, 2)>>}})
    ELSE g

\* The second loop of handleLeadingEdge, down to the index low.
RECURSIVE leadingClamp(_, _, _, _)
leadingClamp(g, pos, offset, low) ==
    IF pos >= low
    THEN LET off == clampToNoise(g, offset, D(g, pos))
         IN Only({leadingClamp(x[1], pos - 1, x[2], low) : x \in
                    {<<Write(g, pos, D(g, pos) - off),
                       GoDiv(off + g.offset, 2)>>}})
    ELSE g

handleLeadingEdge(g, peak, peakOffset) ==
    LET peakSign == D(g, peak.Index) < 0
    IN Only({[b EXCEPT !.offset = peakOffset, !.pos = peak.Index] :
             b \in {leadingClamp(a[1], a[2], peakOffset, g.pos) :
                      a \in {leadingSlope(g, peak.Index - 1, peak,
                                           peakOffset, peakSign)}}})

\* The first loop of handleTrailingEdge: <<fields, pos>> when it ends.
RECURSIVE trailingSlope(_, _, _, _)
trailingSlope(g, pos, peak, peakSign) ==
    IF pos <= peak.End /\ ((D(g, pos) - g.offset < 0) = peakSign)
    THEN Only({trailingSlope(x, pos + 1, peak, peakSign) : x \in
                 {Write(g, pos, D(g, pos) - g.offset)}})
    ELSE <<g, pos>>

\* The second loop of handleTrailingEdge: <<fields, pos>> when it ends.
RECURSIVE trailingClamp(_, _, _, _, _)
trailingClamp(g, pos, offset, peak, nextOffset) ==
    IF pos < peak.Next
    THEN LET off == clampToNoise(g, offset, D(g, pos))
         IN Only({trailingClamp(x[1], pos + 1, x[2], peak, nextOffset) :
                    x \in {<<Write(g, pos, D(g, pos) - off),
                             GoDiv(off + nextOffset, 2)>>}})
    ELSE <<g, pos>>

handleTrailingEdge(g, peak, nextOffset) ==
    LET peakSign == D(g, peak.Index) < 0
    IN Only({[b[1] EXCEPT !.offset = nextOffset, !.pos = b[2]] :
             b \in {trailingClamp(a[1], a[2], g.offset, peak, nextOffset) :
                      a \in {trailingSlope(g, g.pos, peak, peakSign)}}})

\* for f.withinNoise(start) { start++ }
RECURSIVE skipWithin(_, _)
skipWithin(g, start) ==
    IF withinNoise(g, start) THEN skipWithin(g, start + 1) ELSE start

\* The midpoint of a window that begins one sample early, at the last
\* sample of the peak before it.
midpointAt_fromEnd(g, at) ==
    LET lh == lowHigh(g, at - 1, min(at + g.PeakWidth, ND(g)))
    IN GoDiv(lh[1] + lh[2], 2)

\* The midpoint of lowHigh(data[at:min(at+pw, len(data))]).
midpointAt(g, at) ==
    LET lh == lowHigh(g, at, min(at + g.PeakWidth, ND(g)))
    IN GoDiv(lh[1] + lh[2], 2)

\* The rest of firstPeak once the first peak is found.
firstPeakOf(g, peak) ==
    IF peak.End < 0 THEN [f |-> g, err |-> "firstPeak: peak too long"]
    ELSE IF peak.Next >= ND(g)
    THEN [f |-> applyOffsetUntil(g, ND(g)), err |-> ""]
    ELSE IF withinNoise(g, peak.Next)
    THEN Only({Only({[f |-> handleTrailingEdge(x, peak, nextOffset),
                      err |-> ""] :
                     x \in {handleLeadingEdge(
                              g, peak, GoDiv(g.offset + nextOffset, 2))}}) :
               nextOffset \in {midpointAt(g, peak.Next)}})
    ELSE Only({
        IF nextPk.End < 0
        THEN [f |-> g, err |-> "firstPeak: next peak too long"]
        ELSE IF nextPk.Next >= ND(g)
        THEN [f |-> handleLeadingEdge(g, peak, g.offset), err |-> ""]
        ELSE Only({[f |-> handleLeadingEdge(
                              updateNoiseLevel(g, nextOffset, peak.Value,
                                               nextPk.Value),
                              peak, nextOffset),
                    err |-> ""] :
                   nextOffset \in {GoDiv(peak.Value + nextPk.Value, 2)}})
        : nextPk \in {findPeakAt(g, peak.Next)}})

\* firstPeak: the fields when it returns and the error, "" for nil.
firstPeak(g) ==
    Only({firstPeakOf(g, peak) :
          peak \in {findPeakAt(g, start) : start \in {skipWithin(g, g.pos)}}})

\* The rest of nextPeak once the previous peak is found.
nextPeakOf(g, prev) ==
    IF prev.End < 0
    THEN [f |-> g, err |-> "nextPeak: previous peak too long"]
    ELSE IF prev.Next >= ND(g)
    THEN [f |-> applyOffsetUntil(g, ND(g)), err |-> ""]
    ELSE IF withinNoise(g, prev.Next)
    THEN Only({[f |-> handleTrailingEdge(g, prev, nextOffset), err |-> ""] :
               nextOffset \in {midpointAt(g, prev.Next)}})
    ELSE Only({
        IF cur.End < 0
        THEN [f |-> g, err |-> "nextPeak: current peak too long"]
        ELSE IF cur.Next >= ND(g)
        THEN [f |-> applyOffsetUntil(g, ND(g)), err |-> ""]
        ELSE Only({[f |-> applyOffsetUntil(
                              [updateNoiseLevel(g, peakOffset, prev.Value,
                                                cur.Value)
                                 EXCEPT !.offset = peakOffset],
                              cur.Index),
                    err |-> ""] :
                   peakOffset \in {GoDiv(prev.Value + cur.Value, 2)}})
        : cur \in {findPeakAt(g, prev.Next)}})

\* nextPeak: the fields when it returns and the error, "" for nil.
nextPeak(g) ==
    Only({nextPeakOf(g, prev) : prev \in {findPeakAt(g, g.pos)}})

\* ------------------------------------------------------------------------
\* mfm.Decoder
\* ------------------------------------------------------------------------
EOD == "end of input data"

\* What a pass of the loop of NextBlock began with, and the delta it took;
\* delta = 0: no pass has taken one in this call.
NoPass == [delta |-> 0, BitWidth |-> 0, prevBit |-> 0, Bits |-> <<>>]

\* A decoder record after NewDecoder and, for bw # 0, SetBitWidth(bw).
\* pc is "loop" while NextBlock is in its loop, prevBit is the local
\* variable of NextBlock, err is what NextBlock returned last.
NewDecoder(bw) ==
    [BitWidth |-> bw, StartIndex |-> 0, EndIndex |-> 0, Bits |-> <<>>,
     prevBit |-> 0, pc |-> "ready", err |-> "", pass |-> NoPass]

DecResult(dc, d) == [dec |-> dc, e |-> d]

\* A panic under NextBlock ends the program.
DecPanic(dc, d) == DecResult([dc EXCEPT !.pc = "panic"], d)

\* return err, and the deferred d.EndIndex = d.Edge.CurIndex
DecReturn(dc, d, err) ==
    DecResult([dc EXCEPT !.pc = "ready", !.err = err,
                         !.EndIndex = d.CurIndex], d)

\* Decoder.SetBitWidth
DecoderSetBitWidth(dc, d, bitWidth) ==
    IF bitWidth < 2 THEN DecPanic(dc, d)
    ELSE DecResult([dc EXCEPT !.BitWidth = bitWidth],
                   [d EXCEPT !.MaxCrossingTime = GoDiv(bitWidth, 2)])

\* d.Bits = append(d.Bits, ...) and the assignment to prevBit.
Appended(dc, bits, prevBit) ==
    [dc EXCEPT !.Bits = dc.Bits \o bits, !.prevBit = prevBit]

\* NextBlock after its loop.
afterLoop(dc, d) ==
    IF d.CurType # EdgeToNone
    THEN DecReturn(dc, d, IF dc.Bits = <<>>
                          THEN "bad data: only one edge before EOD" ELSE EOD)
    ELSE DecReturn(dc, d, "")

\* decodeLong without the test of prevBit.
decodeLong_keepsOn(dc, d, delta) ==
    DecoderSetBitWidth(Appended(dc, <<0, 0, 0, 1>>, dc.prevBit), d,
                       GoDiv(delta, 2))

\* case delta*4 < d.BitWidth*9: 4 half-bit widths
decodeLong(dc, d, delta) ==
    IF dc.prevBit # 1
    THEN DecReturn(dc, d, "bad data: delta too large after 0")
    ELSE DecoderSetBitWidth(Appended(dc, <<0, 0, 0, 1>>, dc.prevBit), d,
                            GoDiv(delta, 2))

\* The switch in the loop of NextBlock.
decodeDelta(dc, d, delta) ==
    IF Wrap(delta * 4) < Wrap(dc.BitWidth * 3)
    THEN DecReturn(dc, d, "bad data: edge distance too short")
    ELSE IF Wrap(delta * 4) < Wrap(dc.BitWidth * 5)
    THEN DecoderSetBitWidth(
             Appended(dc, <<1 - dc.prevBit, dc.prevBit>>, dc.prevBit),
             d, delta)
    ELSE IF Wrap(delta * 4) < Wrap(dc.BitWidth * 7)
    THEN DecoderSetBitWidth(
             IF dc.prevBit = 0 THEN Appended(dc, <<1, 0, 0, 1>>, 1)
             ELSE Appended(dc, <<0, 0>>, 0),
             d, GoDiv(Wrap(delta * 2), 3))
    ELSE IF Wrap(delta * 4) < Wrap(dc.BitWidth * 9)
    THEN decodeLong(dc, d, delta)
    ELSE DecReturn(dc, d, "bad data: edge distance too long")

\* The pass once d.Edge.Next() has returned r.
pulseEdge(dc, r) ==
    IF r.ret = "panic" THEN DecPanic(dc, r.e)
    ELSE IF r.ret = "false" THEN afterLoop(dc, r.e)
    ELSE decodeDelta(
             [dc EXCEPT !.pass.delta = Wrap(r.e.CurIndex - r.e.PrevIndex)],
             r.e, Wrap(r.e.CurIndex - r.e.PrevIndex))

\* One test of the loop of NextBlock and the pass or the return after it,
\* on a build whose int(NaN) is nv.
decodePulse(dc, d, nv) ==
    IF d.CurType = EdgeToNone THEN afterLoop([dc EXCEPT !.pass = NoPass], d)
    ELSE pulseEdge([dc EXCEPT !.pass = [delta |-> 0,
                                        BitWidth |-> dc.BitWidth,
                                        prevBit |-> dc.prevBit,
                                        Bits |-> dc.Bits]],
                   EdgeNext(d, nv))

\* d.Bits = append(d.Bits, 1, 0); prevBit := byte(0); then the loop.
toLoop(r) ==
    IF r.dec.pc = "panic" THEN r
    ELSE DecResult([Appended(r.dec, <<1, 0>>, 0) EXCEPT !.pc = "loop"], r.e)

\* The lead-in once d.Edge.Next() has returned r.
leadInEdge(dc, r) ==
    IF r.ret = "panic" THEN DecPanic(dc, r.e)
    ELSE IF r.ret = "false"
    THEN DecReturn(dc, r.e, "bad data: only one edge before EOD")
    ELSE toLoop(DecoderSetBitWidth(dc, r.e,
                                   Wrap(r.e.CurIndex - r.e.PrevIndex)))

\* NextBlock from if d.BitWidth == 0 to the first test of its loop.
blockLeadIn(dc, d, nv) ==
    IF dc.BitWidth = 0 THEN leadInEdge(dc, EdgeNext(d, nv))
    ELSE DecResult([dc EXCEPT !.prevBit = 0, !.pc = "loop"], d)

\* NextBlock once the first d.Edge.Next() has returned r.
blockFirstEdge(dc, r, nv) ==
    IF r.ret = "panic" THEN DecPanic(dc, r.e)
    ELSE IF r.ret = "false"
    THEN DecReturn([dc EXCEPT !.StartIndex = r.e.PrevIndex], r.e, EOD)
    ELSE blockLeadIn([dc EXCEPT !.StartIndex = r.e.CurIndex], r.e, nv)

\* Decoder.NextBlock from its entry to the first test of its loop.
NextBlock(dc, d, nv) ==
    IF d.CurType # EdgeToNone
    THEN DecResult(
             [dc EXCEPT !.err = "edge detector in bad state for next block",
                        !.pass = NoPass],
             d)
    ELSE blockFirstEdge([dc EXCEPT !.Bits = <<>>, !.pass = NoPass],
                        EdgeNext(d, nv), nv)

\* No function has been called alone.
NoFn == [op |-> "none", a |-> 0, b |-> 0, int |-> 0, float |-> FInt(0)]

\* ------------------------------------------------------------------------
\* The edge detector driven on its own (cmd/wav-edges.go processSamples).
\* ------------------------------------------------------------------------
\* The sample values drawn: zero, the smallest amplitudes, the largest.
SampleValues == {-MaxAmp, -1, 0, 1, MaxAmp}

Buffers == UNION {[1 .. n -> SampleValues] : n \in 0 .. MaxLen}

NoCall == [op |-> "none", c |-> NewPulseClassifier, e |-> NewEdgeDetect(0),
           arg |-> FInt(0)]
NoPeek == PeekNone(NewEdgeDetect(0))

\* No DC-offset filter is in use.
DCIdle ==
    /\ f = NewDCOffset(0, 0, <<>>, <<>>, FALSE)
    /\ dcPc = "idle"
    /\ dcErr = ""
    /\ dcLast = "none"
    /\ iterPos = 0
    /\ iterNoise = 0

InitEdge ==
    /\ Samples \in Buffers
    /\ NoiseFloor \in 0 .. MaxNoise
    /\ nanInt = {}
    /\ \E m \in 0 .. MaxMCT : e = NewEdgeDetect(m)
    /\ edgeRet = "none"
    /\ c = NewPulseClassifier
    /\ pulseRet = "none"
    /\ lastCall = NoCall
    /\ lastPeek = NoPeek
    /\ pulseCalls = 0
    /\ dec = NewDecoder(0)
    /\ lastFn = NoFn
    /\ DCIdle

\* The builds to run a call on: the build of this run once a call has
\* depended on int(NaN) (known = {it}); before that every build, or any
\* one of them when all builds give the same result.
BuildChoices(known, same) ==
    IF known # {} THEN known ELSE IF same THEN {MinInt} ELSE NaNInts

\* One call of EdgeDetect.Next; a panic ends the program.  nanInt records
\* the build's int(NaN) from the first call whose result depends on it.
CallEdgeNext ==
    /\ edgeRet # "panic"
    /\ \E r0 \in {EdgeNext(e, MinInt)}, r1 \in {EdgeNext(e, 0)},
          r2 \in {EdgeNext(e, MaxInt)} :
        \E same \in {nanInt = {} /\ r0 = r1 /\ r1 = r2} :
        \E nv \in BuildChoices(nanInt, same) :
        \E r \in {IF nv = MinInt THEN r0 ELSE IF nv = 0 THEN r1 ELSE r2} :
           /\ e' = r.e
           /\ edgeRet' = r.ret
           /\ nanInt' = IF same THEN {} ELSE {nv}
    /\ UNCHANGED <<Samples, NoiseFloor, c, pulseRet, lastCall, lastPeek,
                   pulseCalls, dcVars, restVars>>

NextEdge == CallEdgeNext

SpecEdge == InitEdge /\ [][NextEdge]_vars

\* ------------------------------------------------------------------------
\* The classifier driven by a caller (cmd/pulse-stats.go).
\* ------------------------------------------------------------------------
\* Sample buffers with alternating runs of +WaveAmp and -WaveAmp: lead
\* zero samples, then a run of each length of lens, then trail zeros.
RECURSIVE Repeat(_, _)
Repeat(v, n) == IF n <= 0 THEN <<>> ELSE <<v>> \o Repeat(v, n - 1)

RECURSIVE Runs(_, _)
Runs(lens, v) ==
    IF lens = <<>> THEN <<>>
    ELSE Repeat(v, Head(lens)) \o Runs(Tail(lens), -v)

\* The amplitude of the runs, beyond every noise floor drawn.
WaveAmp == MaxNoise + 1

Wave(lead, lens, trail) ==
    Repeat(0, lead) \o Runs(lens, WaveAmp) \o Repeat(0, trail)

RunLens == {1, 2, 5}

\* The widths the caller passes to SetBitWidth.
SetWidths == {1, 2}

\* Up to MaxFree runs of any of the lengths, then up to MaxTail runs of
\* one length.
RunLists ==
    {free \o [i \in 1 .. t |-> w] :
        free \in UNION {[1 .. n -> RunLens] : n \in 0 .. MaxFree},
        t \in 0 .. MaxTail, w \in RunLens}

WaveBuffers == {Wave(lead, lens, 1) : lead \in 0 .. 1, lens \in RunLists}

SmallBuffers == UNION {[1 .. n -> SampleValues] : n \in 0 .. MaxPulseLen}

\* The samples -a, ..., -1, 0, 1, ..., a.
Ramp(a) == [i \in 1 .. (2 * a + 1) |-> i - 1 - a]

\* A ramp through zero, then runs of one length, then a zero sample.
RampBuffers ==
    {Ramp(a) \o Runs([i \in 1 .. n |-> w], -a) \o <<0>> :
        a \in 1 .. WaveAmp, n \in 0 .. MaxTail, w \in RunLens}

InitPulse ==
    /\ \/ /\ Samples \in WaveBuffers
          /\ NoiseFloor = MaxNoise
          /\ \E m \in {0, MaxMCT} : e = NewEdgeDetect(m)
       \/ /\ Samples \in SmallBuffers
          /\ NoiseFloor \in 0 .. MaxNoise
          /\ \E m \in {0, MaxMCT} : e = NewEdgeDetect(m)
       \/ /\ Samples \in RampBuffers
          /\ NoiseFloor \in 0 .. MaxNoise
          /\ \E m \in 0 .. (MaxMCT + 1) : e = NewEdgeDetect(m)
    /\ nanInt = {}
    /\ edgeRet = "none"
    /\ c = NewPulseClassifier
    /\ pulseRet = "none"
    /\ lastCall = NoCall
    /\ lastPeek = NoPeek
    /\ pulseCalls = 0
    /\ dec = NewDecoder(0)
    /\ lastFn = NoFn
    /\ DCIdle

\* One call of PulseClassifier.Next, the limit-th call at most; a panic
\* ends the program.
PulseNextCall(limit) ==
    /\ pulseRet # "panic"
    /\ pulseCalls < limit
    /\ pulseCalls' = pulseCalls + 1
    /\ \E r0 \in {PulseNext(c, e, MinInt)}, r1 \in {PulseNext(c, e, 0)},
          r2 \in {PulseNext(c, e, MaxInt)} :
        \E same \in {nanInt = {} /\ r0 = r1 /\ r1 = r2} :
        \E nv \in BuildChoices(nanInt, same) :
        \E r \in {IF nv = MinInt THEN r0 ELSE IF nv = 0 THEN r1 ELSE r2} :
           /\ c' = r.c
           /\ e' = r.e
           /\ pulseRet' = r.ret
           /\ lastPeek' = r.peek
           /\ nanInt' = IF same THEN {} ELSE {nv}
           /\ lastCall' = [op |-> "Next", c |-> c, e |-> e, arg |-> r.used]
    /\ UNCHANGED <<Samples, NoiseFloor, edgeRet, dcVars, restVars>>

CallPulseNext == PulseNextCall(MaxCalls)

\* One call of PulseClassifier.SetBitWidth(w), before the first Next as
\* cmd/pulse-stats.go makes it.
CallSetBitWidth ==
    /\ pulseRet = "none"
    /\ lastCall.op = "none"
    /\ \E w \in SetWidths :
        \E r \in {SetBitWidth(c, e, FInt(w), 0)} :
           /\ c' = r.c
           /\ e' = r.e
           /\ pulseRet' = IF r.panic THEN "panic" ELSE "none"
           /\ lastCall' = [op |-> "SetBitWidth", c |-> c, e |-> e,
                           arg |-> FInt(w)]
    /\ lastPeek' = NoPeek
    /\ UNCHANGED <<Samples, NoiseFloor, nanInt, edgeRet, pulseCalls, dcVars, restVars>>

NextPulse == CallPulseNext \/ CallSetBitWidth

SpecPulse == InitPulse /\ [][NextPulse]_vars

\* ------------------------------------------------------------------------
\* The classifier on a long square wave, its bit width set at any time.
\* ------------------------------------------------------------------------
\* The run length of the square waves: every pulse but the first is
\* RingLen samples wide.
RingLen == 5

\* The widths passed to SetBitWidth: 1.5, which it refuses, 5.3, 6.5
\* and 10.
RingWidths == {Ratio(3, 2), Ratio(53, 10), Ratio(13, 2), FInt(10)}

\* Square waves of up to MaxRingRuns runs, and one that 16 zero samples
\* precede, which put its first edge at 15.
RingBuffers ==
    {Wave(0, [i \in 1 .. n |-> RingLen], 1) : n \in 0 .. MaxRingRuns}
    \cup {Wave(16, <<RingLen, RingLen>>, 1)}

InitRing ==
    /\ Samples \in RingBuffers
    /\ NoiseFloor = MaxNoise
    /\ e = NewEdgeDetect(0)
    /\ nanInt = {}
    /\ edgeRet = "none"
    /\ c = NewPulseClassifier
    /\ pulseRet = "none"
    /\ lastCall = NoCall
    /\ lastPeek = NoPeek
    /\ pulseCalls = 0
    /\ dec = NewDecoder(0)
    /\ lastFn = NoFn
    /\ DCIdle

\* One call of Next, until the wave has ended.
CallRingNext == pulseRet # "false" /\ PulseNextCall(MaxRingRuns + 2)

\* One call of PulseClassifier.SetBitWidth(w), before or between the calls
\* of Next.
CallRingSetBitWidth ==
    /\ pulseRet \in {"none", "true"}
    /\ \E w \in RingWidths :
        \E r \in {SetBitWidth(c, e, w, 0)} :
           /\ c' = r.c
           /\ e' = r.e
           /\ pulseRet' = IF r.panic THEN "panic" ELSE pulseRet
           /\ lastCall' = [op |-> "SetBitWidth", c |-> c, e |-> e,
                           arg |-> w]
    /\ lastPeek' = NoPeek
    /\ UNCHANGED <<Samples, NoiseFloor, nanInt, edgeRet, pulseCalls, dcVars, restVars>>

NextRing == CallRingNext \/ CallRingSetBitWidth

SpecRing == InitRing /\ [][NextRing]_vars


\* ------------------------------------------------------------------------
\* DCOffset.Run, one step per call it makes (cmd/dc-offset.go cleanSamples)
\* ------------------------------------------------------------------------
\* The samples: silence, samples at the noise floor, and peaks whose tips
\* are more than ten noise floors apart from the offset between them.
DCValues == {-MaxDCAmp, -DCNoise, 0, DCNoise, MaxDCAmp}

DCSmall == UNION {[1 .. n -> DCValues] : n \in 0 .. MaxDCLen}

\* A run of one value with at most one sample before and after it.
DCLong ==
    {h \o Repeat(v, n) \o t :
        h \in UNION {[1 .. k -> DCValues] : k \in 0 .. 1},
        v \in DCValues \ {0}, n \in (MaxDCLen + 1) .. MaxDCRun,
        t \in UNION {[1 .. k -> DCValues] : k \in 0 .. 1}}

\* The output slices Run is given for an input: the input itself, or
\* another slice, one shorter than or as long as the input.
Outputs(input) ==
    {[out |-> input, alias |-> TRUE]} \cup
    {[out |-> Repeat(0, n), alias |-> FALSE] :
        n \in {k \in {Len(input) - 1, Len(input)} : k >= 0}}

\* The PeakWidth values Run is given: unset, the smallest, the largest.
PeakWidths == {0, 1, MaxPeakWidth}

\* The NoiseFloor values Run is given: none, and one that the small
\* samples are not beyond.
NoiseFloors == {0, DCNoise}

InitDC ==
    /\ \E input \in DCSmall \cup DCLong, pw \in PeakWidths :
         \E nf \in NoiseFloors,
            o \in (IF input \in DCSmall THEN Outputs(input)
                   ELSE {[out |-> input, alias |-> TRUE]}) :
            /\ f = NewDCOffset(nf, pw, input, o.out, o.alias)
            /\ Samples = input
    /\ dcPc = "start"
    /\ dcErr = ""
    /\ dcLast = "none"
    /\ iterPos = 0
    /\ iterNoise = 0
    /\ NoiseFloor = 0
    /\ nanInt = {}
    /\ e = NewEdgeDetect(0)
    /\ edgeRet = "none"
    /\ c = NewPulseClassifier
    /\ pulseRet = "none"
    /\ lastCall = NoCall
    /\ lastPeek = NoPeek
    /\ pulseCalls = 0
    /\ dec = NewDecoder(0)
    /\ lastFn = NoFn

\* The variables of the edge detector and the classifier.
mfmVars == <<Samples, NoiseFloor, nanInt, e, edgeRet, c, pulseRet, lastCall,
             lastPeek, pulseCalls>>

\* Where Run goes at "continue" or when the inner loop ends: the test of
\* the outer loop.
LoopTest(g) == IF g.pos < ND(g) THEN "loop" ELSE "done"

\* Run without the test of the lengths of its two slices.
DCRun_noLengthTest ==
    /\ dcPc = "start"
    /\ f' = [f EXCEPT !.PeakWidth = IF f.PeakWidth <= 0 THEN DefaultPeakWidth
                                    ELSE f.PeakWidth,
                      !.noiseLevel = f.NoiseFloor, !.offset = 0, !.pos = 0]
    /\ dcPc' = LoopTest(f)
    /\ dcErr' = ""
    /\ dcLast' = "Run"
    /\ UNCHANGED <<iterPos, iterNoise, mfmVars, restVars>>

\* Run from its entry to the first test of the outer loop.
DCRun ==
    /\ dcPc = "start"
    /\ LET g == [f EXCEPT !.PeakWidth = IF f.PeakWidth <= 0
                                        THEN DefaultPeakWidth
                                        ELSE f.PeakWidth,
                          !.noiseLevel = f.NoiseFloor]
       IN IF Len(f.out) < Len(f.data)
          THEN /\ f' = g
               /\ dcPc' = "error"
               /\ dcErr' = "output cannot be shorter than input"
          ELSE /\ f' = [g EXCEPT !.offset = 0, !.pos = 0]
               /\ dcPc' = LoopTest(g)
               /\ dcErr' = ""
    /\ dcLast' = "Run"
    /\ UNCHANGED <<iterPos, iterNoise, mfmVars, restVars>>

\* The head of a pass of the outer loop: leadingNoise and the break.
DCLeadingNoise ==
    /\ dcPc = "loop"
    /\ f' = leadingNoise(f)
    /\ iterPos' = f.pos
    /\ iterNoise' = f.noiseLevel
    /\ dcPc' = IF f'.pos >= ND(f') THEN "done" ELSE "first"
    /\ dcLast' = "leadingNoise"
    /\ UNCHANGED <<dcErr, mfmVars, restVars>>

\* The call of firstPeak with its error passed over.
DCFirstPeak_errorIgnored ==
    /\ dcPc = "first"
    /\ dcLast' = "firstPeak"
    /\ \E r \in {firstPeak(f)} :
          /\ f' = r.f
          /\ dcErr' = r.err
          /\ dcPc' = IF outsideNoise(r.f, r.f.pos) THEN "next"
                     ELSE LoopTest(r.f)
    /\ UNCHANGED <<iterPos, iterNoise, mfmVars, restVars>>

\* firstPeak, and the test whether a sequence of peaks follows.
DCFirstPeak ==
    /\ dcPc = "first"
    /\ dcLast' = "firstPeak"
    /\ \E r \in {firstPeak(f)} :
          /\ f' = r.f
          /\ dcErr' = r.err
          /\ dcPc' = IF r.err # "" THEN "error"
                     ELSE IF outsideNoise(r.f, r.f.pos) THEN "next"
                     ELSE LoopTest(r.f)
    /\ UNCHANGED <<iterPos, iterNoise, mfmVars, restVars>>

\* One pass of the inner loop: nextPeak and the test of the inner loop.
DCNextPeak ==
    /\ dcPc = "next"
    /\ dcLast' = "nextPeak"
    /\ \E r \in {nextPeak(f)} :
          /\ f' = r.f
          /\ dcErr' = r.err
          /\ dcPc' = IF r.err # "" THEN "error"
                     ELSE IF outsideNoise(r.f, r.f.pos) THEN "next"
                     ELSE LoopTest(r.f)
    /\ UNCHANGED <<iterPos, iterNoise, mfmVars, restVars>>

NextDC == DCRun \/ DCLeadingNoise \/ DCFirstPeak \/ DCNextPeak

SpecDC == InitDC /\ [][NextDC]_vars

\* Run is one goroutine that is not suspended for ever.
FairSpecDC == SpecDC /\ WF_vars(NextDC)


\* ------------------------------------------------------------------------
\* The filter on a signal whose peaks are not centred on zero.
\* ------------------------------------------------------------------------
\* The middle between a high tip and a low tip just beyond the noise.
ShiftMid == GoDiv(MaxDCAmp - (DCNoise + 1), 2)

\* A high tip, a low tip just beyond the noise floor, a sample between
\* the two on the high side of zero, and the middle.
ShiftValues == {MaxDCAmp, -(DCNoise + 1), DCNoise, ShiftMid}

\* The buffers over these values, and the same upside down.
ShiftBuffers ==
    {[i \in 1 .. Len(b) |-> sgn * b[i]] :
        b \in UNION {[1 .. n -> ShiftValues] : n \in 1 .. MaxShiftLen},
        sgn \in {1, -1}}

InitShift ==
    /\ \E input \in ShiftBuffers, pw \in {1} :
         \E nf \in {DCNoise},
            o \in {[out |-> input, alias |-> TRUE],
                   [out |-> Repeat(0, Len(input)), alias |-> FALSE]} :
            /\ f = NewDCOffset(nf, pw, input, o.out, o.alias)
            /\ Samples = input
    /\ dcPc = "start"
    /\ dcErr = ""
    /\ dcLast = "none"
    /\ iterPos = 0
    /\ iterNoise = 0
    /\ NoiseFloor = 0
    /\ nanInt = {}
    /\ e = NewEdgeDetect(0)
    /\ edgeRet = "none"
    /\ c = NewPulseClassifier
    /\ pulseRet = "none"
    /\ lastCall = NoCall
    /\ lastPeek = NoPeek
    /\ pulseCalls = 0
    /\ dec = NewDecoder(0)
    /\ lastFn = NoFn

SpecShift == InitShift /\ [][NextDC]_vars

\* ------------------------------------------------------------------------
\* The filter on long peaks that begin after leading noise
\* ------------------------------------------------------------------------
\* Most samples of silence before the peak, most samples of the peak,
\* most elements of the output beyond the length of the input.
MaxLead == 3
MaxLongRun == 8
MaxSpare == 2

\* Silence, a peak of one value, and up to two samples of any kind.
LongBuffers ==
    {Repeat(0, lead) \o Repeat(v, n) \o t :
        lead \in 0 .. MaxLead, v \in {MaxDCAmp, -MaxDCAmp},
        n \in 1 .. MaxLongRun,
        t \in UNION {[1 .. k -> DCValues] : k \in 0 .. 2}}

\* The output is the input slice, a slice of zeros of its length, or a
\* longer slice of ones.
InitLong ==
    /\ \E input \in LongBuffers, pw \in {1, MaxPeakWidth} :
         \E nf \in NoiseFloors,
            o \in {[out |-> input, alias |-> TRUE],
                   [out |-> Repeat(0, Len(input)), alias |-> FALSE],
                   [out |-> Repeat(1, Len(input) + MaxSpare),
                    alias |-> FALSE]} :
            /\ f = NewDCOffset(nf, pw, input, o.out, o.alias)
            /\ Samples = input
    /\ dcPc = "start"
    /\ dcErr = ""
    /\ dcLast = "none"
    /\ iterPos = 0
    /\ iterNoise = 0
    /\ NoiseFloor = 0
    /\ nanInt = {}
    /\ e = NewEdgeDetect(0)
    /\ edgeRet = "none"
    /\ c = NewPulseClassifier
    /\ pulseRet = "none"
    /\ lastCall = NoCall
    /\ lastPeek = NoPeek
    /\ pulseCalls = 0
    /\ dec = NewDecoder(0)
    /\ lastFn = NoFn

SpecLong == InitLong /\ [][NextDC]_vars

\* ------------------------------------------------------------------------
\* The edge detector on square waves
\* ------------------------------------------------------------------------

\* The longest half-period of the waves, and the most half-periods.
MaxHalf == 3
MaxHalves == 4

\* n half-periods of w samples each, the first at a, then alternating
\* between -a and a.
SquareWave(a, w, n) == Runs([i \in 1 .. n |-> w], a)

SquareWaves ==
    {SquareWave(a, w, n) :
        a \in (-MaxAmp .. MaxAmp) \ {0}, w \in 1 .. MaxHalf,
        n \in 1 .. MaxHalves}

InitSquare ==
    /\ Samples \in SquareWaves
    /\ NoiseFloor \in 0 .. MaxNoise
    /\ nanInt = {}
    /\ \E m \in 0 .. MaxHalf : e = NewEdgeDetect(m)
    /\ edgeRet = "none"
    /\ c = NewPulseClassifier
    /\ pulseRet = "none"
    /\ lastCall = NoCall
    /\ lastPeek = NoPeek
    /\ pulseCalls = 0
    /\ dec = NewDecoder(0)
    /\ lastFn = NoFn
    /\ DCIdle

NextSquare == CallEdgeNext

SpecSquare == InitSquare /\ [][NextSquare]_vars

\* ------------------------------------------------------------------------
\* The decoder reading blocks: NextBlock called again whenever it returned.
\* ------------------------------------------------------------------------
\* The most runs of a buffer, and the lengths of the runs.
MaxBlockRuns == 4
BlockRunLens == {1, 2, 3, 4, 5}

\* One zero sample, runs of alternating sign, one zero sample.
BlockBuffers ==
    {Wave(1, lens, 1) :
        lens \in UNION {[1 .. n -> BlockRunLens] : n \in 1 .. MaxBlockRuns}}

\* The bit widths set before the first block; 0: none, a lead-in is needed.
BlockWidths == {0, 2, 4}

InitDecoder ==
    /\ Samples \in BlockBuffers
    /\ NoiseFloor \in {0, MaxNoise}
    /\ nanInt = {}
    /\ \E bw \in BlockWidths :
         /\ dec = NewDecoder(bw)
         /\ e = NewEdgeDetect(GoDiv(bw, 2))
    /\ edgeRet = "none"
    /\ c = NewPulseClassifier
    /\ pulseRet = "none"
    /\ lastCall = NoCall
    /\ lastPeek = NoPeek
    /\ pulseCalls = 0
    /\ lastFn = NoFn
    /\ DCIdle

\* The call of NextBlock, up to the first test of its loop.
CallNextBlock ==
    /\ dec.pc = "ready"
    /\ \E r0 \in {NextBlock(dec, e, MinInt)}, r1 \in {NextBlock(dec, e, 0)},
          r2 \in {NextBlock(dec, e, MaxInt)} :
        \E same \in {nanInt = {} /\ r0 = r1 /\ r1 = r2} :
        \E nv \in BuildChoices(nanInt, same) :
        \E r \in {IF nv = MinInt THEN r0 ELSE IF nv = 0 THEN r1 ELSE r2} :
           /\ dec' = r.dec
           /\ e' = r.e
           /\ nanInt' = IF same THEN {} ELSE {nv}
    /\ UNCHANGED <<Samples, NoiseFloor, edgeRet, c, pulseRet, lastCall,
                   lastPeek, pulseCalls, dcVars, lastFn>>

\* One test of the loop of NextBlock with the pass or the return after it.
DecodePulse ==
    /\ dec.pc = "loop"
    /\ \E r0 \in {decodePulse(dec, e, MinInt)},
          r1 \in {decodePulse(dec, e, 0)},
          r2 \in {decodePulse(dec, e, MaxInt)} :
        \E same \in {nanInt = {} /\ r0 = r1 /\ r1 = r2} :
        \E nv \in BuildChoices(nanInt, same) :
        \E r \in {IF nv = MinInt THEN r0 ELSE IF nv = 0 THEN r1 ELSE r2} :
           /\ dec' = r.dec
           /\ e' = r.e
           /\ nanInt' = IF same THEN {} ELSE {nv}
    /\ UNCHANGED <<Samples, NoiseFloor, edgeRet, c, pulseRet, lastCall,
                   lastPeek, pulseCalls, dcVars, lastFn>>

NextDecoder == CallNextBlock \/ DecodePulse

SpecDecoder == InitDecoder /\ [][NextDecoder]_vars

\* ------------------------------------------------------------------------
\* clampToNoise and intersectXAxis called alone, on arguments from the
\* whole range of int.
\* ------------------------------------------------------------------------
\* Integers at both ends of the range of int, around the largest integer
\* that float64 holds exactly, and of the size of samples.
FnInts ==
    {MinInt, MinInt + 1, -(2 ^ FloatBits) - 1, -(2 ^ FloatBits),
     -MaxDCAmp, -DCNoise - 1, -DCNoise, -2, -1, 0, 1, 2, 3, DCNoise,
     DCNoise + 1, MaxDCAmp, (2 ^ FloatBits) - 1, 2 ^ FloatBits,
     (2 ^ FloatBits) + 1, MaxInt - 1, MaxInt}

FnFloors == {0, 1, DCNoise, MaxInt}

InitFn ==
    /\ \E nf \in FnFloors : f = NewDCOffset(nf, 0, <<>>, <<>>, FALSE)
    /\ \E a \in FnInts, b \in FnInts : lastFn = [NoFn EXCEPT !.a = a, !.b = b]
    /\ Samples = <<>>
    /\ NoiseFloor = 0
    /\ nanInt = {}
    /\ e = NewEdgeDetect(0)
    /\ edgeRet = "none"
    /\ c = NewPulseClassifier
    /\ pulseRet = "none"
    /\ lastCall = NoCall
    /\ lastPeek = NoPeek
    /\ pulseCalls = 0
    /\ dec = NewDecoder(0)
    /\ dcPc = "idle"
    /\ dcErr = ""
    /\ dcLast = "none"
    /\ iterPos = 0
    /\ iterNoise = 0

\* f.clampToNoise(a, b)
CallClampToNoise ==
    /\ lastFn.op = "none"
    /\ lastFn' = [lastFn EXCEPT !.op = "clampToNoise",
                                !.int = clampToNoise(f, lastFn.a, lastFn.b)]
    /\ UNCHANGED <<mfmVars, dcVars, dec>>

\* intersectXAxis(a, b)
CallIntersectXAxis ==
    /\ lastFn.op = "none"
    /\ lastFn' = [lastFn EXCEPT !.op = "intersectXAxis",
                                !.float = intersectXAxis(lastFn.a, lastFn.b)]
    /\ UNCHANGED <<mfmVars, dcVars, dec>>

NextFn == CallClampToNoise \/ CallIntersectXAxis

SpecFn == InitFn /\ [][NextFn]_vars

\* ------------------------------------------------------------------------
\* The filter and the detector constructed with a negative NoiseFloor:
\* a program that filters in place (cmd/dc-offset.go) or one that asks the
\* detector for the first edge (cmd/wav-edges.go).
\* ------------------------------------------------------------------------

NegativeFloors == {-DCNoise, -MaxAmp, -1}

InitNegative ==
    /\ nanInt = {}
    /\ edgeRet = "none"
    /\ c = NewPulseClassifier
    /\ pulseRet = "none"
    /\ lastCall = NoCall
    /\ lastPeek = NoPeek
    /\ pulseCalls = 0
    /\ dec = NewDecoder(0)
    /\ lastFn = NoFn
    /\ \/ /\ Samples \in DCSmall \ {<<>>}
          /\ NoiseFloor \in NegativeFloors
          /\ \E pw \in PeakWidths :
                f = NewDCOffset(NoiseFloor, pw, Samples, Samples, TRUE)
          /\ e = NewEdgeDetect(0)
          /\ dcPc = "start"
          /\ dcErr = ""
          /\ dcLast = "none"
          /\ iterPos = 0
          /\ iterNoise = 0
       \/ /\ Samples \in Buffers \ {<<>>}
          /\ NoiseFloor \in NegativeFloors
          /\ \E m \in 0 .. MaxMCT : e = NewEdgeDetect(m)
          /\ DCIdle

\* The first call of Next, by the program that does not filter: the call
\* that observes the NoiseFloor first.
CallEdgeFirst == dcPc = "idle" /\ edgeRet = "none" /\ CallEdgeNext

NextNegative == NextDC \/ CallEdgeFirst

SpecNegative == InitNegative /\ [][NextNegative]_vars

\* ------------------------------------------------------------------------
\* Properties of EdgeDetect.Next
\* ------------------------------------------------------------------------
\* C2: whenever EdgeDetect.Next returns false, the current edge is the
\* ToNone at the end of the buffer: CurType = EdgeToNone and
\* CurIndex = len(Samples).
C2_FalseIsAtEnd ==
    edgeRet = "false" => (e.CurType = EdgeToNone /\ e.CurIndex = NS)

\* C3: when a call of Next returns true with a ToHigh or ToLow edge, the
\* call that follows it returns true as well.
C3_EdgeIsClosed ==
    [][(edgeRet = "true" /\ e.CurType \in {EdgeToHigh, EdgeToLow})
          => edgeRet' = "true"]_vars

\* C4: after every call of Next that returns true, PrevIndex <= CurIndex.
C4_IndexOrder == edgeRet = "true" => e.PrevIndex <= e.CurIndex

\* C5: of two edges that consecutive successful calls of Next produce, the
\* earlier has the strictly smaller index.
C5_IndexStrict ==
    [][(edgeRet = "true" /\ edgeRet' = "true")
          => e'.PrevIndex < e'.CurIndex]_vars

\* C6: after every call of Next that returns true,
\* CurZero >= PrevZero - 0.5.
C6_ZeroOrder ==
    edgeRet = "true" => FGe(e.CurZero, FSub(e.PrevZero, FHalf))

\* C7: on every call of Next that returns true the edge types follow the
\* state machine: after ToNone comes ToHigh or ToLow, after ToHigh comes
\* ToLow or ToNone, after ToLow comes ToHigh or ToNone; so CurType differs
\* from PrevType and no two ToNone edges are produced in a row.
C7_TypeMachine ==
    edgeRet = "true" =>
        /\ e.PrevType = EdgeToNone => e.CurType \in {EdgeToHigh, EdgeToLow}
        /\ e.PrevType = EdgeToHigh => e.CurType \in {EdgeToLow, EdgeToNone}
        /\ e.PrevType = EdgeToLow => e.CurType \in {EdgeToHigh, EdgeToNone}
        /\ e.CurType # e.PrevType

\* A ToLow edge has followed a ToHigh edge that followed the first, ToNone,
\* state: each kind of step of the state machine but the closing one.
C7_Witness ==
    /\ edgeRet = "true"
    /\ e.PrevType = EdgeToHigh
    /\ e.CurType = EdgeToLow
    /\ e.PrevIndex > 0

\* ------------------------------------------------------------------------
\* Properties of PulseClassifier.Next
\* ------------------------------------------------------------------------
\* The class of the first threshold that the pulse width p is below, for
\* the bit width w, in exact arithmetic; a NaN is below no threshold.
ThresholdClass(p, w) ==
    IF p[2] = 0 \/ w[2] = 0 THEN PulseHuge
    ELSE IF 4 * p[1] * w[2] < 3 * w[1] * p[2] THEN PulseTiny
    ELSE IF 4 * p[1] * w[2] < 5 * w[1] * p[2] THEN PulseShort
    ELSE IF 4 * p[1] * w[2] < 7 * w[1] * p[2] THEN PulseMedium
    ELSE IF 4 * p[1] * w[2] < 9 * w[1] * p[2] THEN PulseLong
    ELSE PulseHuge

\* The classes the switch gives the pulse widths 5, 10, 15, 20 and 30 with
\* the bit width 10.
ClassesAtTen ==
    <<classify(FInt(5), FInt(10)), classify(FInt(10), FInt(10)),
      classify(FInt(15), FInt(10)), classify(FInt(20), FInt(10)),
      classify(FInt(30), FInt(10))>>

\* The last call was a Next that returned true after classifying.
Classified ==
    /\ lastCall.op = "Next"
    /\ pulseRet = "true"
    /\ lastPeek.ok \in {"none", "true"}

\* C8: with a bit width w that is not 0 and the pulse width p, Next gives
\* the class of the first threshold that holds: Tiny if 4p < 3w, else
\* Short if 4p < 5w, else Medium if 4p < 7w, else Long if 4p < 9w, else
\* Huge; with w = 10 the widths 5, 10, 15, 20, 30 are Tiny, Short, Medium,
\* Long, Huge.
C8_Thresholds ==
    /\ Classified =>
          /\ lastCall.arg # FInt(0)
          /\ c.Class = ThresholdClass(c.Width, lastCall.arg)
    /\ ClassesAtTen
         = <<PulseTiny, PulseShort, PulseMedium, PulseLong, PulseHuge>>

\* A second or later call of Next has classified a pulse as Medium with
\* the bit width that the calls before it left.
C8_Witness ==
    /\ Classified
    /\ lastPeek.ok = "none"
    /\ pulseCalls >= 2
    /\ lastCall.arg = lastCall.c.BitWidth
    /\ c.Class = PulseMedium

\* The six fields of the current and the previous edge are the same.
SameEdges(a, b) ==
    /\ a.CurIndex = b.CurIndex
    /\ a.CurType = b.CurType
    /\ a.CurZero = b.CurZero
    /\ a.PrevIndex = b.PrevIndex
    /\ a.PrevType = b.PrevType
    /\ a.PrevZero = b.PrevZero

\* C9: the lead-in peek consumes no edge: when peekAtLeadIn has returned,
\* true or false, CurIndex, CurType, CurZero, PrevIndex, PrevType and
\* PrevZero are what they were when the peek began, whatever number of
\* edges, 0 to 9, the peek went over.
C9_PeekRestores ==
    lastPeek.ok \in {"true", "false"} =>
        /\ lastPeek.calls \in 0 .. 9
        /\ SameEdges(e, lastPeek.before)

\* A peek has succeeded after going over 9 edges, and has left the
\* detector a new MaxCrossingTime.
C9_Witness ==
    /\ lastPeek.ok = "true"
    /\ lastPeek.calls = 9
    /\ e.MaxCrossingTime # lastPeek.before.MaxCrossingTime

\* C10: when BitWidth is 0 and the lead-in peek fails, Next returns true
\* with Class = PulseUnknown, BitWidth is still 0, the history of bit
\* widths is still empty, and every field of the detector, MaxCrossingTime
\* too, is what it was when the peek began.
C10_PeekFails ==
    lastPeek.ok = "false" =>
        /\ lastCall.c.BitWidth = FInt(0)
        /\ pulseRet = "true"
        /\ c.Class = PulseUnknown
        /\ c.BitWidth = FInt(0)
        /\ c.BitWidths = <<>>
        /\ e = lastPeek.before

\* A peek has failed on the 8th edge it went over, after it had set
\* MaxCrossingTime from the pulses before that edge.
C10_Witness ==
    /\ lastPeek.ok = "false"
    /\ lastPeek.calls = 8
    /\ pulseRet = "true"
    /\ c.Class = PulseUnknown

\* The pulse that b is at starts at the edge that the pulse of a ends at.
Follows(a, b) ==
    /\ b.PrevIndex = a.CurIndex
    /\ b.PrevType = a.CurType
    /\ b.PrevZero = a.CurZero

\* The sum of the widths of the pulses of the detectors in seen.
RECURSIVE WidthSum(_)
WidthSum(seen) ==
    IF seen = <<>> THEN FInt(0)
    ELSE FAdd(WidthSum(SubSeq(seen, 1, Len(seen) - 1)),
              FSub(seen[Len(seen)].CurZero, seen[Len(seen)].PrevZero))

\* C11: when BitWidth is 0 and the lead-in peek succeeds, the bit width it
\* sets is total/count over exactly 8 consecutive pulses of which none
\* touches a ToNone edge: the current pulse and the 7 after it, or the 8
\* after the current pulse when that one starts at a ToNone edge; and the
\* current pulse is classified against that bit width.
C11_PeekAverages ==
    lastPeek.ok = "true" =>
        /\ lastCall.c.BitWidth = FInt(0)
        /\ lastPeek.count = 8
        /\ Len(lastPeek.seen) = 8
        /\ \A i \in 1 .. 8 : ~TouchesNone(lastPeek.seen[i])
        /\ \A i \in 1 .. 7 : Follows(lastPeek.seen[i], lastPeek.seen[i + 1])
        /\ IF lastPeek.before.PrevType = EdgeToNone
           THEN Follows(lastPeek.before, lastPeek.seen[1])
           ELSE SameEdges(lastPeek.before, lastPeek.seen[1])
        /\ lastPeek.total = WidthSum(lastPeek.seen)
        /\ lastCall.arg = FDivInt(WidthSum(lastPeek.seen), 8)
        /\ c.Width = FSub(lastPeek.before.CurZero, lastPeek.before.PrevZero)
        /\ c.Class = ThresholdClass(c.Width,
                                    FDivInt(WidthSum(lastPeek.seen), 8))

\* A peek has succeeded on a pulse that starts at a ToNone edge, over 8
\* pulses that are not all of one width.
C11_Witness ==
    /\ lastPeek.ok = "true"
    /\ lastPeek.before.PrevType = EdgeToNone
    /\ FSub(lastPeek.seen[1].CurZero, lastPeek.seen[1].PrevZero)
         # FSub(lastPeek.seen[8].CurZero, lastPeek.seen[8].PrevZero)

\* ------------------------------------------------------------------------
\* Properties of the bit-width history
\* ------------------------------------------------------------------------
\* The exact sum of acc and the finite values vs.
RECURSIVE SumOf(_, _)
SumOf(vs, acc) ==
    IF vs = <<>> THEN acc
    ELSE Only({SumOf(Tail(vs), a) :
               a \in {Lowest(acc[1] * Head(vs)[2] + Head(vs)[1] * acc[2],
                             acc[2] * Head(vs)[2])}})

\* The last call was a Next that added an estimate to the history.
Added ==
    /\ Classified
    /\ c.Class \in {PulseShort, PulseMedium, PulseLong}

\* The history and the BWIndex that the add of the last call found: those
\* SetBitWidth left when the lead-in peek has set the bit width, else those
\* before the call.
RingBefore ==
    IF lastPeek.ok = "true" THEN [i \in 1 .. BWCap |-> lastCall.arg]
    ELSE lastCall.c.BitWidths
IndexBefore == IF lastPeek.ok = "true" THEN 0 ELSE lastCall.c.BWIndex

\* The history has at most 16 values, BWIndex is a position in it, and
\* BitWidth is BWTotal divided by the number of values.
HistoryShape ==
    /\ Len(c.BitWidths) <= 16
    /\ 0 <= c.BWIndex /\ c.BWIndex < 16
    /\ c.BitWidths # <<>>
         => c.BitWidth = FDivInt(c.BWTotal, Len(c.BitWidths))

\* An add to a full history has replaced the entry at BWIndex, the one
\* written longest ago, and moved BWIndex to the next entry.
HistoryEvicts ==
    Added /\ Len(RingBefore) = 16
    => /\ c.BitWidths = [RingBefore EXCEPT
                            ![IndexBefore + 1] = estimate(c.Class, c.Width)]
       /\ c.BWIndex = (IndexBefore + 1) % 16

\* C12: after any calls of SetBitWidth and Next the history holds at most
\* 16 values, 0 <= BWIndex < 16, BWTotal is the sum of the values of the
\* history (the float64 nearest to it), BitWidth is BWTotal divided by
\* their number when there are any, and an add to a full history evicts
\* exactly the oldest entry.
C12_History ==
    /\ HistoryShape
    /\ c.BWTotal = Nearest(SumOf(c.BitWidths, FInt(0)))
    /\ HistoryEvicts

\* C13: after every Next that classifies a pulse as Short, Medium or Long,
\* and so adds to the history, the detector's MaxCrossingTime is BitWidth,
\* the updated mean of the history, rounded to the nearest integer.
C13_CrossingTime ==
    Added => e.MaxCrossingTime = ToInt(FAdd(c.BitWidth, FHalf), 0)

\* The last call was a Next on a pulse of the width p of the n estimates
\* added since the bit width was set to w: the history before the call
\* held n values p, written first, and 16 - n values w.
ConstantStream ==
    /\ lastCall.op = "Next"
    /\ pulseRet = "true"
    /\ lastPeek.ok = "none"
    /\ Len(lastCall.c.BitWidths) = BWCap
    /\ \E n \in 0 .. BWCap :
         /\ lastCall.c.BWIndex = n % BWCap
         /\ \A i \in 1 .. BWCap :
              lastCall.c.BitWidths[i]
                = IF i <= n THEN c.Width ELSE lastCall.c.BitWidths[BWCap]
    /\ classify(c.Width, lastCall.c.BitWidths[BWCap]) = PulseShort

\* The history holds the pulse width of the last call 16 times.
HistoryConstant == \A i \in 1 .. BWCap : c.BitWidths[i] = c.Width

\* C14: from a bit width w that is not 0, on a stream of pulses of one
\* width p that is Short against w, every pulse is classified Short, and
\* once 16 pulses have been added BitWidth is p and stays p.
C14_Converges ==
    ConstantStream
    => /\ c.Class = PulseShort
       /\ HistoryConstant => c.BitWidth = c.Width

\* The last call was a Next that found BitWidth set.
PreSet == lastCall.op = "Next" /\ lastCall.c.BitWidth # FInt(0)

\* C15: when BitWidth is not 0 before a call of Next, the call advances
\* the detector by exactly one edge, does not run the lead-in peek, and
\* gives the pulse the class of the threshold rule, the first pulse too;
\* with BitWidth 10 a first pulse of width 15 is Medium.
C15_PreSet ==
    PreSet =>
        /\ lastPeek.ok = "none"
        /\ \E nv \in NaNInts :
             /\ SameEdges(e, EdgeNext(lastCall.e, nv).e)
             /\ pulseRet = EdgeNext(lastCall.e, nv).ret
        /\ pulseRet = "true" =>
             /\ c.Width = FSub(e.CurZero, e.PrevZero)
             /\ c.Class = ThresholdClass(c.Width, lastCall.c.BitWidth)
        /\ pulseCalls = 1 /\ lastCall.c.BitWidth = FInt(10)
             /\ c.Width = FInt(15) => c.Class = PulseMedium

\* The first call of Next, after SetBitWidth(10), has classified a first
\* pulse of width 15.
C15_Witness ==
    /\ PreSet
    /\ pulseCalls = 1
    /\ pulseRet = "true"
    /\ lastCall.c.BitWidth = FInt(10)
    /\ lastCall.e.PrevType = EdgeToNone
    /\ c.Width = FInt(15)
    /\ c.Class = PulseMedium

\* ------------------------------------------------------------------------
\* Properties of DCOffset.Run
\* ------------------------------------------------------------------------
DCDone == dcPc \in {"done", "error"}

\* C1: DCOffset.Run terminates for every input, it returns nil or an error
\* after finitely many steps: pos never decreases, every nextPeak call
\* that lets the inner loop go on leaves pos greater than it found it, and
\* every pass of the outer loop that ends in another test of the loop
\* leaves pos greater than it was when the pass began.
C1_RunTerminates ==
    /\ [][f'.pos >= f.pos]_vars
    /\ [][(dcLast' = "nextPeak" /\ dcErr' = "") => f'.pos > f.pos]_vars
    /\ [][(dcLast' \in {"firstPeak", "nextPeak"} /\ dcPc' \in {"loop", "done"})
             => f'.pos > iterPos]_vars
    /\ <>DCDone

\* Run has returned nil after a second pass of the outer loop whose last
\* call was nextPeak, with every sample of the input passed.
C1_Witness ==
    /\ dcPc = "done" /\ dcErr = ""
    /\ dcLast = "nextPeak"
    /\ iterPos > 0
    /\ f.pos = ND(f)

\* Every sample of s is the same value.
IsConstant(s) == \A i \in 1 .. Len(s) : s[i] = s[1]

\* Run has returned on an input of one value; the output is not shorter
\* than the input.
ConstantDone ==
    /\ DCDone
    /\ Samples # <<>>
    /\ IsConstant(Samples)
    /\ Len(f.out) >= Len(Samples)

\* n / d rounded up, for n >= 0 and d > 0.
CeilDiv(n, d) == (n + d - 1) \div d

C17_NoiseLevel ==
    /\ f.NoiseFloor >= 0
    /\ f.noiseLevel >= f.NoiseFloor
    /\ dcLast = "Run" => f.noiseLevel = f.NoiseFloor
    /\ dcLast = "leadingNoise" => f.noiseLevel <= iterNoise

\* leadingNoise has faded a noise level that updateNoiseLevel had raised
\* above a NoiseFloor that is not 0, and one more eighth off would have
\* taken it below NoiseFloor: it is NoiseFloor.
C17_Witness ==
    /\ dcLast = "leadingNoise"
    /\ f.NoiseFloor > 0
    /\ iterNoise > f.NoiseFloor
    /\ iterNoise - GoDiv(iterNoise, 8) < f.NoiseFloor
    /\ f.noiseLevel = f.NoiseFloor

\* C19: when len(output) < len(input) Run returns an error, and it has
\* written no element of output.
C19_ShortOutput ==
    (dcLast # "none" /\ Len(f.out) < Len(Samples)) =>
        /\ dcPc = "error"
        /\ dcErr = "output cannot be shorter than input"
        /\ f.written = {}
        /\ f.out = Repeat(0, Len(f.out))

\* Run has returned the error for an output of at least one element, one
\* shorter than an input that begins with a sample beyond the noise floor.
C19_Witness ==
    /\ dcPc = "error"
    /\ Len(f.out) = Len(Samples) - 1
    /\ Len(f.out) >= 1
    /\ abs(Samples[1]) > f.NoiseFloor
    /\ f.written = {}

\* The errors of Run that tell of a peak that is too long.
TooLong ==
    {"firstPeak: peak too long", "firstPeak: next peak too long",
     "nextPeak: previous peak too long", "nextPeak: current peak too long"}

\* A peak that the call to come looks for is flagged with End = -1: the
\* peak at start, or the peak that begins where that one ends.
Overlong(g, start) ==
    \E peak \in {findPeakAt(g, start)} :
       \/ peak.End < 0
       \/ /\ peak.Next < ND(g)
          /\ ~withinNoise(g, peak.Next)
          /\ findPeakAt(g, peak.Next).End < 0

\* C20: whenever the peak detection of firstPeak or nextPeak flags a peak
\* as too long (End = -1), Run returns an error that says peak too long,
\* and nothing is written to the output from that detection on: the call
\* writes nothing and Run takes no step after it.
C20_TooLong ==
    /\ [][((dcPc = "first" /\ Overlong(f, skipWithin(f, f.pos)))
            \/ (dcPc = "next" /\ Overlong(f, f.pos)))
           => /\ dcPc' = "error"
              /\ dcErr' \in TooLong
              /\ f'.out = f.out
              /\ f'.written = f.written]_vars
    /\ [][dcPc # "error"]_vars

\* Run has returned the error of firstPeak for its first peak, after
\* leadingNoise had written a part of the output.
C20_Witness ==
    /\ dcPc = "error"
    /\ dcErr = "firstPeak: peak too long"
    /\ dcLast = "firstPeak"
    /\ f.written # {}
    /\ f.written # 0 .. (Len(Samples) - 1)

\* Where Run is after the call at pc has returned r.
After(pc, r) ==
    IF r.err # "" THEN "error"
    ELSE IF pc = "loop"
    THEN (IF r.f.pos >= ND(r.f) THEN "done" ELSE "first")
    ELSE IF outsideNoise(r.f, r.f.pos) THEN "next"
    ELSE LoopTest(r.f)

\* The call that Run makes at pc with the fields g: the fields and the
\* error when it returns.
StepOf(g, pc) ==
    IF pc = "loop" THEN [f |-> leadingNoise(g), err |-> ""]
    ELSE IF pc = "first" THEN firstPeak(g)
    ELSE nextPeak(g)

\* The rest of Run from pc on with the fields g: the fields and the error
\* when Run returns.
RECURSIVE RunFrom(_, _, _)
RunFrom(g, pc, err) ==
    IF pc \in {"done", "error"} THEN [f |-> g, err |-> err]
    ELSE Only({RunFrom(r.f, After(pc, r), r.err) : r \in {StepOf(g, pc)}})

\* Run on a copy of the input and an output slice of its own.
RunApart ==
    Only({RunFrom(g, LoopTest(g), "") : g \in
            {NewDCOffset(f.NoiseFloor, f.PeakWidth, Samples,
                         Repeat(0, Len(Samples)), FALSE)}})

\* Run(buf, buf) has returned.
InPlaceDone == DCDone /\ dcLast # "none" /\ f.alias

\* Two returns of a call agree in all that Run goes on with.
Agree(a, b) ==
    /\ a.err = b.err
    /\ a.f.out = b.f.out
    /\ a.f.written = b.f.written
    /\ a.f.pos = b.f.pos
    /\ a.f.offset = b.f.offset
    /\ a.f.noiseLevel = b.f.noiseLevel

\* No call of Run reads an element of data at an index at which out has
\* been written: whatever such a read is given, the call returns the same.
ReadsUnwritten ==
    dcPc \in {"loop", "first", "next"} =>
        \A m \in {Mark, -Mark} :
           /\ Agree(StepOf([f EXCEPT !.mark = m], dcPc), StepOf(f, dcPc))
           /\ After(dcPc, StepOf([f EXCEPT !.mark = m], dcPc))
                = After(dcPc, StepOf(f, dcPc))

\* C18 as stated: Run never reads data at an index after out is written
\* at it, and Run(buf, buf) leaves in buf the values that Run on a copy of
\* buf leaves in an output slice of its own, with the same error.
C18_InPlaceEqual ==
    /\ ReadsUnwritten
    /\ InPlaceDone => (RunApart.err = dcErr /\ RunApart.f.out = f.out)

\* C18, amended: Run never reads data at an index after out is written at
\* it; Run(buf, buf) returns the error that Run on a copy of buf with an
\* output slice of its own returns, has written the same indices, and
\* leaves in buf at every written index the value the other leaves in its
\* output; when Run returns nil that is every index, and buf equals that
\* output.
C18_InPlace ==
    /\ ReadsUnwritten
    /\ InPlaceDone =>
          \E r \in {RunApart} :
             /\ r.err = dcErr
             /\ r.f.written = f.written
             /\ \A i \in f.written : r.f.out[i + 1] = f.out[i + 1]
             /\ dcErr = "" => r.f.out = f.out

\* Run(buf, buf) has returned nil after a second pass of the outer loop
\* that ended in nextPeak: every index is written and buf has changed.
C18_Witness ==
    /\ InPlaceDone
    /\ dcErr = ""
    /\ dcLast = "nextPeak"
    /\ iterPos > 0
    /\ f.written = 0 .. (Len(Samples) - 1)
    /\ f.out # Samples

\* ------------------------------------------------------------------------
\* Properties of the edges found from a high or a low
\* ------------------------------------------------------------------------
\* 1 when the call of Next began at a high, -1 at a low.
Side == IF e.PrevType = EdgeToHigh THEN 1 ELSE -1

\* What the limit MaxCrossingTime says the scan from sample i on finds,
\* with the last sample beyond the noise on the side of the state at ld:
\* "edge" at a sample beyond the noise on the other side, "none" at the
\* within-noise sample that is more than MaxCrossingTime after ld, "end"
\* at the end of the buffer; a sample beyond the noise on the side of the
\* state starts the count again.
RECURSIVE Crossing(_, _)
Crossing(i, ld) ==
    IF i >= NS THEN "end"
    ELSE IF Side * S(i) < -NoiseFloor THEN "edge"
    ELSE IF Side * S(i) > NoiseFloor THEN Crossing(i + 1, i)
    ELSE IF i - ld > e.MaxCrossingTime THEN "none"
    ELSE Crossing(i + 1, ld)

\* The latest call of Next began at a high or a low and returned true.
FromHighOrLow ==
    /\ edgeRet = "true"
    /\ e.PrevType \in {EdgeToHigh, EdgeToLow}
    /\ e.PrevIndex \in 0 .. (NS - 1)

\* C23: from a high or a low, Next gives the edge of the other polarity
\* when at most MaxCrossingTime within-noise samples in a row lie between
\* the last sample beyond the noise on the side of the state and the first
\* one beyond it on the other side, and ToNone when more than
\* MaxCrossingTime within-noise samples follow the last sample beyond the
\* noise; a dip into the noise that returns on the same side starts the
\* count again.
C23_CrossingLimit ==
    FromHighOrLow =>
        /\ Crossing(e.PrevIndex + 1, e.PrevIndex) = "edge" =>
              e.CurType = (IF Side = 1 THEN EdgeToLow ELSE EdgeToHigh)
        /\ Crossing(e.PrevIndex + 1, e.PrevIndex) = "none" =>
              e.CurType = EdgeToNone

\* C24: after every call of Next that returns true with a ToHigh or ToLow
\* edge, CurIndex is an index of Samples and the sample at it is on the
\* new side of zero, > 0 for ToHigh and < 0 for ToLow; at index 0 it is
\* beyond the noise floor on that side.
C24_NewSide ==
    (edgeRet = "true" /\ e.CurType \in {EdgeToHigh, EdgeToLow}) =>
        /\ e.CurIndex \in 0 .. (NS - 1)
        /\ e.CurType = EdgeToHigh => S(e.CurIndex) > 0
        /\ e.CurType = EdgeToLow => S(e.CurIndex) < 0
        /\ e.CurIndex = 0 => abs(S(0)) > NoiseFloor


\* The length of the run of equal samples that starts at index i.
RECURSIVE RunLength(_)
RunLength(i) ==
    IF i + 1 < NS /\ S(i + 1) = S(i) THEN 1 + RunLength(i + 1) ELSE 1

\* Samples is a square wave of amplitude beyond the noise floor whose
\* half-period is at most MaxCrossingTime.
CleanSquare ==
    /\ Samples \in SquareWaves
    /\ abs(S(0)) > NoiseFloor
    /\ RunLength(0) <= e.MaxCrossingTime

Opposite(t) == IF t = EdgeToHigh THEN EdgeToLow ELSE EdgeToHigh

\* C25: on a clean square wave of half-period W <= MaxCrossingTime, every
\* call of Next that returns true after the first edge gives either an
\* edge of the type opposite to the previous one, W - 1 to W + 1 samples
\* after it, or, when no whole half-period follows the previous edge, the
\* edge to none at the end of the buffer.
C25_SquareWave ==
    (CleanSquare /\ edgeRet = "true"
        /\ e.PrevType \in {EdgeToHigh, EdgeToLow}) =>
        \/ /\ e.CurType = Opposite(e.PrevType)
           /\ e.CurIndex - e.PrevIndex
                  \in (RunLength(0) - 1) .. (RunLength(0) + 1)
        \/ /\ e.CurType = EdgeToNone
           /\ e.CurIndex = NS
           /\ e.PrevIndex + RunLength(0) >= NS

\* Next has found the third edge of a wave of half-period 2, and on
\* another wave the closing edge to none after three edges.
C25_Witness ==
    /\ CleanSquare
    /\ edgeRet = "true"
    /\ \/ /\ RunLength(0) = 2
          /\ e.PrevType = EdgeToLow /\ e.PrevIndex = 2
          /\ e.CurType = EdgeToHigh /\ e.CurIndex = 4
       \/ /\ RunLength(0) = 3
          /\ e.PrevType = EdgeToHigh /\ e.PrevIndex = 6
          /\ e.CurType = EdgeToNone /\ e.CurIndex = 9

\* ------------------------------------------------------------------------
\* Properties of the configuration errors
\* ------------------------------------------------------------------------
\* C21: with a NoiseFloor < 0 the filter and the detector give an error
\* and do not process the data: once Run is called it has returned an
\* error and written nothing, and the first call of Next does not return
\* an edge or the end of the data.
C21_NegativeFloor ==
    NoiseFloor < 0 =>
        /\ dcLast # "none" =>
              (dcPc = "error" /\ dcErr # "" /\ f.written = {})
        /\ edgeRet \in {"none", "panic"}

\* The finite value w >= 0 rounded to the nearest integer, halves up.
Round(w) == (2 * w[1] + w[2]) \div (2 * w[2])

\* C22: SetBitWidth(w) with w < 2 panics and leaves BitWidth, the history,
\* BWIndex, BWTotal and the detector's MaxCrossingTime as they were; with
\* w >= 2 it leaves BitWidth = w, a history of 16 copies of w,
\* BWTotal = 16w, BWIndex = 0 and MaxCrossingTime = round(w).
C22_SetBitWidth ==
    lastCall.op = "SetBitWidth" =>
        IF 2 * lastCall.arg[2] > lastCall.arg[1]
        THEN /\ pulseRet = "panic"
             /\ c = lastCall.c
             /\ e = lastCall.e
        ELSE /\ pulseRet # "panic"
             /\ c.BitWidth = lastCall.arg
             /\ c.BitWidths = [i \in 1 .. 16 |-> lastCall.arg]
             /\ c.BWTotal = Lowest(16 * lastCall.arg[1], lastCall.arg[2])
             /\ c.BWIndex = 0
             /\ e.MaxCrossingTime = Round(lastCall.arg)

\* SetBitWidth(6.5) has been called on a classifier whose history had
\* been written over at index 0 and further: the index is 0 again and
\* MaxCrossingTime is 7.
C22_Witness ==
    /\ lastCall.op = "SetBitWidth"
    /\ lastCall.arg = <<13, 2>>
    /\ lastCall.c.BWIndex > 0
    /\ lastCall.c.BitWidth # lastCall.arg
    /\ c.BWIndex = 0
    /\ e.MaxCrossingTime = 7

\* ------------------------------------------------------------------------
\* Properties of the functions called alone
\* ------------------------------------------------------------------------
WithinFloor(v) == v \in (-f.NoiseFloor) .. f.NoiseFloor

Ints == MinInt .. MaxInt

\* C26: for every offset a, value b and NoiseFloor >= 0, clampToNoise(a, b)
\* returns an offset r with b - r in [-NoiseFloor, NoiseFloor], and
\* returns a itself when b - a is in that range already.  The differences
\* are those of int; they are the differences of the integers whenever
\* b - a, b - NoiseFloor and b + NoiseFloor are in the range of int.
C26_Clamp ==
    lastFn.op = "clampToNoise" =>
        /\ WithinFloor(Wrap(lastFn.b - lastFn.int))
        /\ WithinFloor(Wrap(lastFn.b - lastFn.a)) => lastFn.int = lastFn.a
        /\ ({lastFn.b - lastFn.a, lastFn.b - f.NoiseFloor,
             lastFn.b + f.NoiseFloor} \subseteq Ints) =>
               /\ WithinFloor(lastFn.b - lastFn.int)
               /\ WithinFloor(lastFn.b - lastFn.a) => lastFn.int = lastFn.a

\* clampToNoise has moved the offset -1 for the value one above the noise
\* floor, has moved the offset 3 for a value below it, and has kept an
\* offset that needed no change.
C26_Witness ==
    /\ lastFn.op = "clampToNoise"
    /\ f.NoiseFloor = DCNoise
    /\ \/ lastFn.a = -1 /\ lastFn.b = DCNoise + 1 /\ lastFn.int = 1
       \/ lastFn.a = 3 /\ lastFn.b = -MaxDCAmp
            /\ lastFn.int = DCNoise - MaxDCAmp
       \/ lastFn.a = 2 /\ lastFn.b = -DCNoise + 2 /\ lastFn.int = 2
       \/ lastFn.a = 1 /\ lastFn.b = DCNoise + 1 /\ lastFn.int = 1

\* intersectXAxis has been called with a first value above and a second
\* value below zero.
Crossed == lastFn.op = "intersectXAxis" /\ lastFn.a > 0 /\ lastFn.b < 0

\* The result of intersectXAxis is the float64 nearest to a / (a - b) and
\* is strictly between 0 and 1.
InsideUnit ==
    /\ lastFn.float = Ratio(lastFn.a, lastFn.a - lastFn.b)
    /\ FLt(FInt(0), lastFn.float)
    /\ FLt(lastFn.float, FInt(1))

\* C27 as stated: for all integers a > 0 > b, intersectXAxis(a, b) is
\* a / (a - b), as a float64, and lies strictly between 0 and 1.
C27_Intersect == Crossed => InsideUnit

\* C27, amended: the same for all integers a > 0 > b whose difference
\* a - b is at most the largest power of two up to which float64 holds
\* every integer (2^53).
C27_IntersectExact ==
    (Crossed /\ lastFn.a - lastFn.b <= 2 ^ FloatBits) => InsideUnit

\* intersectXAxis has returned the largest float64 below 1, for the
\* largest difference that is exact.
C27_Witness ==
    /\ Crossed
    /\ lastFn.a = (2 ^ FloatBits) - 1
    /\ lastFn.b = -1
    /\ lastFn.float = <<(2 ^ FloatBits) - 1, 2 ^ FloatBits>>

\* ------------------------------------------------------------------------
\* Properties of Decoder.NextBlock
\* ------------------------------------------------------------------------
\* The latest step was a pass of the loop that took a pulse of n half-bit
\* widths: 4 * delta in [(2n-1) * BitWidth, (2n+1) * BitWidth).
PulseOf(n) ==
    /\ dec.pass.delta > 0
    /\ 4 * dec.pass.delta >= (2 * n - 1) * dec.pass.BitWidth
    /\ 4 * dec.pass.delta < (2 * n + 1) * dec.pass.BitWidth

\* C28: a pulse of 4 half-bit widths after a 1 bit appends 0,0,0,1 and the
\* loop goes on; after a 0 bit NextBlock returns the error and Bits is as
\* before the pulse.  A pulse of 3 half-bit widths toggles the tracked
\* previous data bit, a pulse of 2 leaves it as it was.
C28_LongAfterOne ==
    /\ (PulseOf(4) /\ dec.pass.prevBit = 1) =>
           /\ dec.pc = "loop"
           /\ dec.Bits = dec.pass.Bits \o <<0, 0, 0, 1>>
    /\ (PulseOf(4) /\ dec.pass.prevBit = 0) =>
           /\ dec.pc = "ready"
           /\ dec.err = "bad data: delta too large after 0"
           /\ dec.Bits = dec.pass.Bits
    /\ PulseOf(3) => dec.prevBit = 1 - dec.pass.prevBit
    /\ PulseOf(2) => dec.prevBit = dec.pass.prevBit

\* NextBlock has taken a long pulse after a 1 bit, with bits decoded
\* before it.
C28_Witness ==
    /\ PulseOf(4)
    /\ dec.pass.prevBit = 1
    /\ dec.pass.Bits # <<>>
    /\ dec.pc = "loop"
    /\ dec.prevBit = 1

\* ------------------------------------------------------------------------
\* Properties of the leading and the trailing edge of a peak
\* ------------------------------------------------------------------------
\* The indices from p down to start, and from p up to end, up to the first
\* one at which data - off is not on the side low of zero.
RECURSIVE SlopeBefore(_, _, _, _, _)
SlopeBefore(g, p, start, off, low) ==
    IF p >= start /\ ((D(g, p) - off < 0) = low)
    THEN {p} \cup SlopeBefore(g, p - 1, start, off, low)
    ELSE {}

RECURSIVE SlopeAfter(_, _, _, _, _)
SlopeAfter(g, p, end, off, low) ==
    IF p <= end /\ ((D(g, p) - off < 0) = low)
    THEN {p} \cup SlopeAfter(g, p + 1, end, off, low)
    ELSE {}

\* The peaks that firstPeak finds from f, and the one nextPeak starts at.
FirstPk == findPeakAt(f, skipWithin(f, f.pos))
SecondPk == findPeakAt(f, FirstPk.Next)
PrevPk == findPeakAt(f, f.pos)

\* What firstPeak does with the peak it finds: nothing to its edges, or
\* handleLeadingEdge for a single peak, for a peak before one that runs
\* off the end, or for the first of a pair.
LeadingCase ==
    IF FirstPk.End < 0 \/ FirstPk.Next >= ND(f) THEN "none"
    ELSE IF withinNoise(f, FirstPk.Next) THEN "single"
    ELSE IF SecondPk.End < 0 THEN "none"
    ELSE IF SecondPk.Next >= ND(f) THEN "offEnd"
    ELSE "pair"

\* The peakOffset that firstPeak passes to handleLeadingEdge.
LeadingOffset ==
    IF LeadingCase = "single"
    THEN GoDiv(f.offset + midpointAt(f, FirstPk.Next), 2)
    ELSE IF LeadingCase = "offEnd" THEN f.offset
    ELSE GoDiv(FirstPk.Value + SecondPk.Value, 2)

\* nextPeak calls handleTrailingEdge.
TrailingDue ==
    /\ PrevPk.End >= 0
    /\ PrevPk.Next < ND(f)
    /\ withinNoise(f, PrevPk.Next)

\* The output at the indices ps is the input less off.
Unclamped(ps, off) == \A p \in ps : f'.out[p + 1] = D(f, p) - off

\* C29: the samples of a peak between its tip and the first one on the
\* other side of the offset are written as the input less the offset,
\* whichever side of zero the tip itself is on: by handleLeadingEdge with
\* peakOffset, back from the sample before the tip, and by
\* handleTrailingEdge with the current offset, on from the tip.
C29_Polarity ==
    /\ [][(dcPc = "first" /\ LeadingCase # "none") =>
            Unclamped(SlopeBefore(f, FirstPk.Index - 1, FirstPk.Start,
                                  LeadingOffset,
                                  D(f, FirstPk.Index) - LeadingOffset < 0),
                      LeadingOffset)]_vars
    /\ [][(dcPc = "next" /\ TrailingDue) =>
            Unclamped(SlopeAfter(f, f.pos, PrevPk.End, f.offset,
                                 D(f, PrevPk.Index) - f.offset < 0),
                      f.offset)]_vars

\* The output at the indices ps is within the noise floor.
Clamped(ps) == \A p \in ps : abs(f'.out[p + 1]) <= f.NoiseFloor

\* The side that the two functions take the peak to be on.
PeakSign(peak) == D(f, peak.Index) < 0

\* C30: every value that the second loop of handleLeadingEdge or of
\* handleTrailingEdge writes, at the indices its first loop has left, is
\* within [-NoiseFloor, NoiseFloor]: before the tip of the peak that
\* firstPeak handles, from the tip of a single peak to the noise after it,
\* and from the tip of the last peak of a sequence to the noise after it.
C30_NoInverseSpike ==
    /\ [][(dcPc = "first" /\ LeadingCase # "none") =>
            Clamped((f.pos .. (FirstPk.Index - 1)) \
                    SlopeBefore(f, FirstPk.Index - 1, FirstPk.Start,
                                LeadingOffset, PeakSign(FirstPk)))]_vars
    /\ [][(dcPc = "first" /\ LeadingCase = "single") =>
            Clamped((FirstPk.Index .. (FirstPk.Next - 1)) \
                    SlopeAfter(f, FirstPk.Index, FirstPk.End,
                               LeadingOffset, PeakSign(FirstPk)))]_vars
    /\ [][(dcPc = "next" /\ TrailingDue) =>
            Clamped((f.pos .. (PrevPk.Next - 1)) \
                    SlopeAfter(f, f.pos, PrevPk.End, f.offset,
                               PeakSign(PrevPk)))]_vars

\* ------------------------------------------------------------------------
\* Properties of firstPeak on a single peak
\* ------------------------------------------------------------------------
\* The samples of the input from index from up to, not including, to.
Window(from, to) == {D(f, i) : i \in from .. (to - 1)}

\* (lo + hi) / 2 of the PeakWidth samples from index at on, or of those
\* that are left of the input.
WindowMid(at) ==
    LET vs == Window(at, min(at + f.PeakWidth, ND(f)))
    IN GoDiv((CHOOSE v \in vs : \A u \in vs : v <= u)
             + (CHOOSE v \in vs : \A u \in vs : v >= u), 2)

\* C31: when firstPeak finds a single peak, one whose sample at peak.Next
\* is within noise, nextOffset is the midpoint (lo + hi) / 2 of the input
\* from peak.Next up to min(peak.Next + PeakWidth, N), the samples from the
\* tip on that are on the side of the peak are written as the input less
\* peakOffset = (offset + nextOffset) / 2, and on return offset is
\* nextOffset and pos is peak.Next: the offset that results is made of
\* samples after the peak only, not of the value of its tip.
C31_SinglePeak ==
    [][(dcPc = "first" /\ LeadingCase = "single") =>
         /\ dcErr' = ""
         /\ f'.offset = WindowMid(FirstPk.Next)
         /\ f'.pos = FirstPk.Next
         /\ \A p \in SlopeAfter(f, FirstPk.Index, FirstPk.End,
                                GoDiv(f.offset + WindowMid(FirstPk.Next), 2),
                                PeakSign(FirstPk)) :
               f'.out[p + 1]
                 = D(f, p) - GoDiv(f.offset + WindowMid(FirstPk.Next), 2)]_vars

\* firstPeak has returned from a single peak that began after leading
\* noise: the sample at pos is within the noise floor, the one before it
\* is not, and the offset is the sample at pos, the midpoint of a window
\* of one sample, and not 0.
C31_Witness ==
    /\ dcLast = "firstPeak" /\ dcErr = ""
    /\ dcPc = "loop"
    /\ iterPos < f.pos /\ f.pos < ND(f)
    /\ f.pos - 1 \in f.written
    /\ abs(Samples[f.pos]) > DCNoise
    /\ abs(Samples[f.pos + 1]) <= f.NoiseFloor
    /\ f.offset # 0
    /\ f.offset = Samples[f.pos + 1]
    /\ f.PeakWidth = 1

\* ------------------------------------------------------------------------
\* Properties of the peak detection
\* ------------------------------------------------------------------------
\* The peak that nextPeak looks for after the previous one.
CurPk == findPeakAt(f, PrevPk.Next)

\* A peak is followed by one that the same call looks for.
Followed(pk) == pk.End >= 0 /\ pk.Next < ND(f) /\ ~withinNoise(f, pk.Next)

\* The peaks that the findPeakAt calls of the call to come return.
Detected ==
    IF dcPc = "first"
    THEN {FirstPk} \cup (IF Followed(FirstPk) THEN {SecondPk} ELSE {})
    ELSE IF dcPc = "next"
    THEN {PrevPk} \cup (IF Followed(PrevPk) THEN {CurPk} ELSE {})
    ELSE {}

\* The indices of a buffer of n samples.
Indices(n) == 0 .. (n - 1)

\* C32 as stated: every peak that findPeakAt returns without the overlong
\* flag has Start <= Index <= End < Next, and Start, Index, End and Next
\* are indices of the sample buffer.
C32_PeakInBounds ==
    \A pk \in Detected :
       pk.End >= 0 =>
          /\ pk.Start <= pk.Index /\ pk.Index <= pk.End /\ pk.End < pk.Next
          /\ {pk.Start, pk.Index, pk.End, pk.Next} \subseteq Indices(ND(f))

\* C32, amended: every peak that findPeakAt returns without the overlong
\* flag has Start <= Index <= End < Next; Start, Index and End are indices
\* of the sample buffer, and Next is one or the length of the buffer.
C32_PeakOrdered ==
    \A pk \in Detected :
       pk.End >= 0 =>
          /\ pk.Start <= pk.Index /\ pk.Index <= pk.End /\ pk.End < pk.Next
          /\ {pk.Start, pk.Index, pk.End} \subseteq Indices(ND(f))
          /\ pk.Next \in Indices(ND(f)) \cup {ND(f)}

\* firstPeak has found a peak that runs to the end of the buffer, with
\* its tip between its first and its last sample, and has passed the
\* buffer to its end: Next is the length of the buffer.
C32_Witness ==
    /\ dcLast = "firstPeak" /\ dcErr = "" /\ dcPc = "done"
    /\ ~f.alias
    /\ f.pos = ND(f)
    /\ \E start \in Indices(ND(f)) :
          /\ outsideNoise(f, start)
          /\ start = 0 \/ withinNoise(f, start - 1)
          /\ start .. (ND(f) - 1) \subseteq f.written
          /\ \E pk \in {findPeakAt(f, start)} :
                /\ pk.End >= 0
                /\ pk.Start < pk.Index /\ pk.Index < pk.End
                /\ pk.Next = ND(f)

\* The sample at index i is there and within noise.
Quiet(i) == i < ND(f) /\ abs(D(f, i) - f.offset) <= f.noiseLevel

\* PeakWidth samples within noise follow the sample at index q.
QuietAfter(q) == \A i \in (q + 1) .. (q + f.PeakWidth) : Quiet(i)

\* C33: peak detection ends a peak with Next = End + 1 as soon as
\* PeakWidth samples within noise in a row follow the last sample of the
\* peak that is out of noise: a peak whose last such sample is followed by
\* PeakWidth samples within noise has Next = End + 1, whatever comes after
\* them, and no peak goes on beyond PeakWidth samples within noise.
C33_NoiseEnds ==
    \A pk \in Detected :
       pk.End >= 0 =>
          /\ QuietAfter(pk.End) => pk.Next = pk.End + 1
          /\ \A q \in pk.Start .. (pk.End - 1) :
                (~Quiet(q) /\ q + f.PeakWidth < pk.End) => ~QuietAfter(q)

\* C34: findLowPeak and findHighPeak look at no more than 6 * PeakWidth
\* samples from the index start on, wherever in the buffer start is: a
\* peak that they return without the overlong flag ends, and has its
\* Next, within 6 * PeakWidth samples of its Start.
C34_ScanLimit ==
    \A pk \in Detected :
       pk.End >= 0 =>
          /\ pk.End - pk.Start < 6 * f.PeakWidth
          /\ pk.Next - pk.Start <= 6 * f.PeakWidth

\* ------------------------------------------------------------------------
\* Properties of the classes that add no estimate
\* ------------------------------------------------------------------------
\* The last call was a Next that gave a class without an estimate.
NoEstimate ==
    /\ lastCall.op = "Next"
    /\ pulseRet = "true"
    /\ c.Class \in {PulseTiny, PulseHuge, PulseUnknown}

\* The bit width, the history and the crossing time are those of k and d.
SameWidths(k, d) ==
    /\ c.BitWidth = k.BitWidth
    /\ c.BitWidths = k.BitWidths
    /\ c.BWIndex = k.BWIndex
    /\ c.BWTotal = k.BWTotal
    /\ e.MaxCrossingTime = d.MaxCrossingTime

\* The entry of the history that the add of the last call has written,
\* and the estimate of the class of the pulse: p, 2p/3 or p/2.
EntryAdded ==
    IF Len(RingBefore) < BWCap THEN c.BitWidths[Len(c.BitWidths)]
    ELSE c.BitWidths[IndexBefore + 1]
EstimateOf ==
    IF c.Class = PulseShort THEN c.Width
    ELSE IF c.Class = PulseMedium THEN FDivInt(FMulInt(c.Width, 2), 3)
    ELSE FDivInt(c.Width, 2)

\* The pulses that are Short, Medium or Long add p, 2p/3 or p/2.
EstimateAdded == Added => EntryAdded = EstimateOf

\* C35 as stated: a Next that gives the class Tiny, Huge or Unknown leaves
\* BitWidth, the history of bit widths (its values, BWIndex, BWTotal) and
\* the detector's MaxCrossingTime as they were before the call; only
\* Short, Medium and Long pulses add an estimate: p, 2p/3, p/2.
C35_NoUpdate ==
    /\ NoEstimate => SameWidths(lastCall.c, lastCall.e)
    /\ EstimateAdded

\* What SetBitWidth(w) leaves in the classifier and in the detector.
WidthSet(w) ==
    /\ c.BitWidth = w
    /\ c.BitWidths = [i \in 1 .. BWCap |-> w]
    /\ c.BWIndex = 0
    /\ c.BWTotal = FMulInt(w, BWCap)
    /\ e.MaxCrossingTime = ToInt(FAdd(w, FHalf), 0)

\* C35, amended: a Next that gives the class Tiny, Huge or Unknown leaves
\* BitWidth, the history of bit widths and the detector's MaxCrossingTime
\* as they were before the call or, when the lead-in peek of this call
\* has succeeded, as the peek has set them; only Short, Medium and Long
\* pulses add an estimate: p, 2p/3, p/2.
C35_NoUpdateButPeek ==
    /\ NoEstimate =>
          IF lastPeek.ok = "true" THEN WidthSet(lastCall.arg)
          ELSE SameWidths(lastCall.c, lastCall.e)
    /\ EstimateAdded

\* A Next whose lead-in peek has succeeded has classified its own pulse,
\* the one before the lead-in, as Tiny: the bit width is the one of the
\* peek, and no estimate is added.
C35_Witness ==
    /\ NoEstimate
    /\ lastPeek.ok = "true"
    /\ c.Class = PulseTiny
    /\ lastCall.c.BitWidth = FInt(0)
    /\ c.BitWidth = lastCall.arg
    /\ c.BitWidth # FInt(0)

\* ------------------------------------------------------------------------
\* Properties of the indices that EdgeDetect.Next reads
\* ------------------------------------------------------------------------
\* C36: for every sample buffer, NoiseFloor >= 0 and MaxCrossingTime >= 0,
\* no call of EdgeDetect.Next reads a sample outside the buffer, so none
\* ends in the panic of an index out of range; the interpolation does not
\* divide 0 by 0, so no zero crossing is NaN and no index comes from the
\* conversion of a NaN; and 0 <= CurIndex <= len(Samples) after every call.
C36_ReadsInBounds ==
    /\ edgeRet # "panic"
    /\ ~IsNaN(e.CurZero)
    /\ nanInt = {}
    /\ 0 <= e.CurIndex /\ e.CurIndex <= NS

\* ------------------------------------------------------------------------
\* Properties of the output that Run has written
\* ------------------------------------------------------------------------
\* C37: when Run has returned nil, pos is len(input) and every index of
\* the output from 0 up to len(input) has been written in the run, the
\* ranges of leadingNoise, handleLeadingEdge, handleTrailingEdge and
\* applyOffsetUntil leaving no gap; the elements of the output from
\* len(input) on are what they were.
C37_AllWritten ==
    /\ (dcPc = "done" /\ dcErr = "") =>
          /\ f.pos = ND(f)
          /\ f.written = Indices(ND(f))
          /\ \A i \in (ND(f) + 1) .. Len(f.out) : f.out[i] = 1
    /\ dcPc \in {"loop", "first", "next"} => f.written = Indices(f.pos)

\* Run has returned nil with an output longer than the input: leadingNoise
\* has written the silence before a peak, firstPeak the peak, and a second
\* leadingNoise the silence after it to the end of the input.
C37_Witness ==
    /\ dcPc = "done" /\ dcErr = ""
    /\ Len(f.out) > ND(f)
    /\ dcLast = "leadingNoise"
    /\ iterPos > 2
    /\ Samples[1] = 0
    /\ abs(Samples[2]) > DCNoise
    /\ abs(Samples[iterPos]) > DCNoise
    /\ f.out[ND(f)] # 1

\* C38: every sample of the output that leadingNoise writes, the input
\* less the offset it has just blended, is within the noise level in
\* force after that step, with NoiseFloor >= 0: it is within the noise
\* level that the call leaves, which no step of the call is below.
C38_NoiseStaysNoise ==
    /\ [][dcPc = "loop" =>
            /\ f'.noiseLevel <= f.noiseLevel
            /\ \A p \in f.pos .. (f'.pos - 1) :
                  /\ p \in f'.written
                  /\ abs(f'.out[p + 1]) <= f'.noiseLevel]_vars

\* leadingNoise has faded a noise level that two peaks had raised, and
\* has written a sample that is not 0 with an offset that is not 0.
C38_Witness ==
    /\ dcLast = "leadingNoise"
    /\ f.noiseLevel < iterNoise
    /\ f.offset # 0
    /\ \E p \in iterPos .. (f.pos - 1) :
          /\ f.out[p + 1] # 0
          /\ abs(f.out[p + 1]) <= f.noiseLevel

\* C39: once BitWidth is not 0, set by SetBitWidth or by a successful
\* peek, it is above 0 after every later call of Next, the lead-in peek
\* does not run again, and no later pulse is reported as Unknown.
C39_WidthStaysPositive ==
    lastCall.op = "Next" /\ ~FEq(lastCall.c.BitWidth, FInt(0)) =>
        /\ FGt(c.BitWidth, FInt(0))
        /\ lastPeek.ok = "none"
        /\ pulseRet = "true" => c.Class # PulseUnknown

\* Next has added an estimate to a history that a peek or SetBitWidth had
\* filled, which has lowered a bit width that was set before the call.
C39_Witness ==
    /\ lastCall.op = "Next"
    /\ pulseRet = "true"
    /\ FGt(lastCall.c.BitWidth, FInt(0))
    /\ c.Class \in {PulseShort, PulseMedium, PulseLong}
    /\ FLt(c.BitWidth, lastCall.c.BitWidth)
    /\ FGt(c.BitWidth, FInt(0))
    /\ lastPeek.ok = "none"

============================================================================
